---- MODULE Spec2Model ----
(***************************************************************************)
(* EchoNote AI, services/openaiService (src/unnamed/part_000).             *)
(*                                                                         *)
(* A JavaScript string is a sequence of one-character strings, a byte      *)
(* array a sequence of numbers.  String indices are 0-based as in the      *)
(* source; the operators below convert to the 1-based TLA+ sequences.      *)
(***************************************************************************)
EXTENDS Integers, Sequences, FiniteSets, TLC

\* ------------------------------------------------------------------ constants

\* part_000:171  const MAX_CHARS = 4000
MAX_CHARS == 4000

\* part_000:28  timeoutMs = 30000 (default parameter of openaiRequest)
timeoutMs == 30000

\* part_000:167  "OpenAI limit is 4096 chars"
ServiceLimit == 4096

\* part_000:402  const numChannels = 1
numChannels == 1

\* part_000:403  const bitsPerSample = 16
bitsPerSample == 16

\* part_000:408, 433  the length of the WAV header, where the samples begin
HeaderSize == 44

\* part_000:379  the sample rate processLiveTranscription passes
LiveSampleRate == 16000

\* ------------------------------------------------------------------ bounds

\* at most this many separators are written into an input text
MaxSeps == 2

\* response bodies are byte arrays of 0..MaxBody bytes
MaxBody == 2

\* the clock of a pending request advances in steps of this many ms
TickMs == 15000

\* wrapper calls that are made, one after another or overlapping
MaxCalls == 2

\* float32ArrayToWav is given at most this many samples
MaxSamples == 3

\* addAudioChunk is called at most this many times
MaxChunks == 5

\* the length of the example text, and the distance between its periods
ExampleLen == 9000
ExamplePeriod == 100

\* ------------------------------------------------------------------ strings

Min(a, b) == IF a < b THEN a ELSE b

\* the characters String.prototype.trim removes, of those that occur here
Whitespace == {" ", "\n"}

\* s.length
length(s) == Len(s)

\* s.substring(a, b), 0 <= a <= b <= s.length
substring(s, a, b) == SubSeq(s, a + 1, b)

\* s.lastIndexOf(pat, pos): the greatest index i <= pos at which pat occurs
\* in s, or -1
lastIndexOf(s, pat, pos) ==
  LET hi == Min(pos, Len(s) - Len(pat))
      found == {i \in 0..hi : \A k \in 1..Len(pat) : s[i + k] = pat[k]}
  IN IF found = {} THEN -1
     ELSE CHOOSE i \in found : \A j \in found : j <= i

\* s.trim(): s without its leading and trailing whitespace
trim(s) ==
  IF \A i \in 1..Len(s) : s[i] \in Whitespace
  THEN <<>>
  ELSE LET first == CHOOSE i \in 1..Len(s) :
                      s[i] \notin Whitespace /\ \A j \in 1..(i - 1) : s[j] \in Whitespace
           last == CHOOSE i \in 1..Len(s) :
                     s[i] \notin Whitespace /\ \A j \in (i + 1)..Len(s) : s[j] \in Whitespace
       IN SubSeq(s, first, last)

\* ------------------------------------------------------------------ splitter

\* the six boundary tokens the splitter looks for
Seps == {<<".", " ">>, <<"?", " ">>, <<"!", " ">>, <<"\n">>, <<",", " ">>, <<" ">>}

\* a test against a tenth of the ceiling instead of the ceiling
FitsInOneChunkTenth(r) == length(r) * 10 <= MAX_CHARS

\* part_000:194  remainingText.length <= MAX_CHARS
FitsInOneChunk(r) == length(r) <= MAX_CHARS

\* no boundary counts as too early
TooEarlyNever(i) == FALSE

\* part_000:207  splitIndex < MAX_CHARS * 0.1
TooEarly(i) == i * 10 < MAX_CHARS

\* a search for the boundary nearest to the ceiling, of whatever kind
FindBoundaryNearest(r) ==
  LET found == {lastIndexOf(r, sep, MAX_CHARS) : sep \in Seps}
  IN CHOOSE i \in found : \A j \in found : j <= i

\* part_000:200-205  the chain of lastIndexOf calls
FindBoundary(r) ==
  LET a == lastIndexOf(r, <<".", " ">>, MAX_CHARS)
      b == IF a = -1 THEN lastIndexOf(r, <<"?", " ">>, MAX_CHARS) ELSE a
      c == IF b = -1 THEN lastIndexOf(r, <<"!", " ">>, MAX_CHARS) ELSE b
      d == IF c = -1 THEN lastIndexOf(r, <<"\n">>, MAX_CHARS) ELSE c
      e == IF d = -1 THEN lastIndexOf(r, <<",", " ">>, MAX_CHARS) ELSE d
  IN IF e = -1 THEN lastIndexOf(r, <<" ">>, MAX_CHARS) ELSE e

\* a split index that leaves the separator character out
SplitIndexBefore(f) ==
  IF f = -1 \/ TooEarly(f) THEN MAX_CHARS ELSE f

\* part_000:207-212  hard chop, or include the separator character; f is the
\* value of splitIndex after the search
SplitIndex(f) ==
  IF f = -1 \/ TooEarly(f) THEN MAX_CHARS ELSE f + 1

\* a chunk that is not cut at the split index
ChunkOfWhole(r, si) == r

\* part_000:214  remainingText.substring(0, splitIndex)
ChunkOf(r, si) == substring(r, 0, Min(si, Len(r)))

\* a remainder that skips the character at the split index
RemainderSkip(r, si) ==
  trim(substring(r, Min(si + 1, Len(r)), Len(r)))

\* part_000:215  remainingText.substring(splitIndex).trim()
Remainder(r, si) == trim(substring(r, Min(si, Len(r)), Len(r)))

\* ------------------------------------------------------------------ inputs

Run(c, n) == [i \in 1..n |-> c]

\* a text of L characters: `lead` spaces, then letters
Base(L, lead) == Run(" ", Min(lead, L)) \o Run("a", L - Min(lead, L))

\* t with sep written over the characters at index p (0-based), if it fits
Stamp(t, p, sep) ==
  IF p + Len(sep) <= Len(t)
  THEN SubSeq(t, 1, p) \o sep \o SubSeq(t, p + Len(sep) + 1, Len(t))
  ELSE t

RECURSIVE StampAll(_, _)
StampAll(t, place) ==
  IF DOMAIN place = {}
  THEN t
  ELSE LET p == CHOOSE q \in DOMAIN place : \A q2 \in DOMAIN place : q <= q2
       IN StampAll(Stamp(t, p, place[p]),
                   [q \in DOMAIN place \ {p} |-> place[q]])

\* the indices around the two thresholds of the splitter: 10% of the ceiling
\* and the ceiling itself
Positions == {MAX_CHARS \div 10 - 1, MAX_CHARS \div 10, MAX_CHARS - 1, MAX_CHARS}

Placements ==
  UNION {[D -> Seps] : D \in {E \in SUBSET Positions : Cardinality(E) <= MaxSeps}}

\* one character over the ceiling (two chunks at most), and enough for three
SplitLens == {MAX_CHARS + 1, 2 * MAX_CHARS + MAX_CHARS \div 8}

\* the texts the splitter is run on alone
SplitTexts ==
  {StampAll(Base(L, 0), pl) : L \in SplitLens, pl \in Placements}

\* the texts of whole generateSpeechFromText calls: empty, blank, short,
\* exactly the ceiling, one over, a boundary at the ceiling, three chunks,
\* and a text that begins with a long run of spaces
CallTexts ==
  { <<>>, <<" ">>, <<" ", "\n">>, <<"a">>, <<"a", " ", "b">>,
    Base(MAX_CHARS - 1, 0), Base(MAX_CHARS, 0), Base(MAX_CHARS + 1, 0),
    Stamp(Base(MAX_CHARS - 1, 0), MAX_CHARS \div 2, <<" ">>),
    Stamp(Base(MAX_CHARS + 3, 0), MAX_CHARS, <<".", " ">>),
    Stamp(Base(MAX_CHARS + 3, 0), MAX_CHARS - 1, <<" ">>),
    Stamp(Base(2 * MAX_CHARS + 2, 0), MAX_CHARS - 1, <<"\n">>),
    Base(2 * MAX_CHARS + 1, 0),
    Stamp(Base(MAX_CHARS + 1, 0), MAX_CHARS, <<" ">>),
    Base(MAX_CHARS + 1, MAX_CHARS \div 2),
    Base(2 * MAX_CHARS + 1, MAX_CHARS \div 2) }

\* a text of ExampleLen characters with '. ' every `per` characters, the first
\* period at index ph
ExampleText(per, ph) ==
  SubSeq([i \in 1..ExampleLen |->
            IF (i - 1) % per = ph THEN "."
            ELSE IF i >= 2 /\ (i - 2) % per = ph THEN " "
            ELSE "a"],
         1, ExampleLen)

\* the example texts: a period every ExamplePeriod characters, or one
\* character more or less, at every phase
ExampleTexts ==
  UNION {{ExampleText(per, ph) : ph \in 0..(per - 1)} :
           per \in (ExamplePeriod - 1)..(ExamplePeriod + 1)}

\* response bodies: <<>>, <<11>>, <<21, 22>>, ...
Body(n) == SubSeq([i \in 1..n |-> 10 * n + i], 1, n)
Bodies == {Body(n) : n \in 0..MaxBody}

\* ------------------------------------------------------------------ errors

\* an Error object: its name and its message (a sequence of string pieces)
Err(name, message) == [name |-> name, message |-> message]

NoError == Err("", <<>>)

\* part_000:60
TimeoutMsg == <<"Request timed out. Check your connection.">>

\* part_000:53  `OpenAI API error: ${response.status}`
StatusMsg(status) == <<"OpenAI API error: ", ToString(status)>>

\* what fetch rejects with when the controller aborts it
AbortError == Err("AbortError", <<"The operation was aborted.">>)

\* what fetch rejects with on a network failure
NetworkError == Err("TypeError", <<"Failed to fetch">>)

\* what response.arrayBuffer() rejects with when the body cannot be read
BodyError == Err("TypeError", <<"Failed to read the response body">>)

\* reading a property of null
NullError == Err("TypeError", <<"Cannot read properties of null (reading 'error')">>)

\* ------------------------------------------------------------------ error bodies

\* JSON values, as far as the error path looks into them
JUndefined == [t |-> "undefined", v |-> ""]
JNull == [t |-> "null", v |-> ""]
JStr(str) == [t |-> "str", v |-> str]
JObj(err, msg) == [t |-> "obj", error |-> err, message |-> msg]

EmptyObject == JObj(JUndefined, JUndefined)

ServiceMessages == {"Incorrect API key provided."}

\* what response.json() can give for an error response; "fail" is a body
\* that is absent or not JSON
ErrorBodies ==
  {[parse |-> "fail", value |-> JUndefined],
   [parse |-> "ok", value |-> EmptyObject],
   [parse |-> "ok", value |-> JNull],
   [parse |-> "ok", value |-> JObj(JObj(JUndefined, JStr("")), JUndefined)]}
  \cup {[parse |-> "ok", value |-> JObj(JObj(JUndefined, JStr(m)), JUndefined)] :
          m \in ServiceMessages}

Statuses == {200, 401, 500}

\* response.ok
ok(status) == status >= 200 /\ status <= 299

\* part_000:52  await response.json().catch(() => ({}))
ErrorData(body) == IF body.parse = "fail" THEN EmptyObject ELSE body.value

Nullish(v) == v.t \in {"null", "undefined"}

\* v.error
PropError(v) == IF v.t = "obj" THEN v.error ELSE JUndefined

\* v?.message
OptMessage(v) ==
  IF Nullish(v) THEN JUndefined
  ELSE IF v.t = "obj" THEN v.message ELSE JUndefined

Truthy(v) == v.t = "obj" \/ (v.t = "str" /\ v.v # "")

\* part_000:51-54  the error thrown for a status that is not ok
NotOkError(status, body) ==
  LET errorData == ErrorData(body)
  IN IF Nullish(errorData) THEN NullError
     ELSE LET m == OptMessage(PropError(errorData))
          IN IF Truthy(m)
             THEN Err("Error", IF m.t = "str" THEN <<m.v>> ELSE <<"[object Object]">>)
             ELSE Err("Error", StatusMsg(status))

\* a catch block that rethrows every error as it is
CatchRethrow(e) == e

\* part_000:57-63  the catch block of openaiRequest
Catch(e) == IF e.name = "AbortError" THEN Err("Error", TimeoutMsg) ELSE e

\* ------------------------------------------------------------------ state

VARIABLES
  text,           \* the argument of the generateSpeechFromText call
  pc,             \* where the call is: idle, split, dispatch, await, body,
                  \* done (resolved) or rejected
  remainingText,  \* part_000:190
  searched,       \* part_000:200-205  the value of splitIndex when the search
                  \* of the last iteration ended, -1 before any
  chunks,         \* part_000:191
  ci,             \* the position of `for (const chunk of chunks)`, 1-based
  audioParts,     \* part_000:187
  result,         \* the Blob the call resolved with
  error,          \* the error the call rejected with
  inFlight,       \* fetch calls issued and not yet settled or read
  timerSet,       \* the setTimeout of openaiRequest is armed
  clock,          \* ms since the pending fetch was issued
  requests,       \* history: the `input` of every request sent, in order
  responses,      \* history: the body of every response read, in order
  fetchCalls,     \* history: number of fetch() calls
  requestCalls,   \* history: number of openaiRequest invocations
  outcome         \* history: how the last request ended

speechVars ==
  <<text, pc, remainingText, searched, chunks, ci, audioParts, result, error>>
requestVars == <<inFlight, timerSet, clock>>
historyVars == <<requests, responses, fetchCalls, requestCalls, outcome>>

VARIABLES
  calls,          \* the calls of the text wrappers (summarizeTranscript, ...):
                  \* for each, the function, where it is, and what it returned
  chatMessages,   \* chat.messages of the one ChatSession (part_000:23)
  sent,           \* history: for each wrapper call, the requests it sent
  audioData,      \* the samples float32ArrayToWav was called with
  sampleRate,     \* the sample rate it was called with
  buffer,         \* part_000:408  the bytes of the ArrayBuffer
  wavI,           \* part_000:434  the index of the sample loop
  wavOffset,      \* part_000:433  where the next sample is written
  wavBlob,        \* the Blob it returned
  wavPc           \* where the call is: idle, samples or returned

serviceVars == <<calls, chatMessages, sent>>
wavVars == <<audioData, sampleRate, buffer, wavI, wavOffset, wavBlob, wavPc>>

VARIABLES
  audioChunks,    \* part_000:344  session.audioChunks: the chunks buffered
  isActive,       \* part_000:346  session.isActive
  livePc,         \* where the processLiveTranscription call is: idle, buffer
                  \* (awaiting wavBlob.arrayBuffer()) or transcribe (awaiting
                  \* transcribeAudioFile)
  combinedAudio,  \* part_000:371  the chunks the call has combined
  added,          \* history: the number of chunks addAudioChunk accepted
  transcribed     \* history: the chunks whose audio was handed to
                  \* transcribeAudioFile

liveVars == <<audioChunks, isActive, livePc, combinedAudio, added, transcribed>>

\* cvInstances: how many times ChatView was mounted
\* cvMounted: the ChatView instance now mounted, 0 for none (ChatView.tsx:11)
\* cvNote: the note prop of ChatView: whether it is null, and its transcript
\* cvMessages: ChatView.tsx:12  the messages displayed, by sender and text
\* userInput: ChatView.tsx:13
\* isLoading: ChatView.tsx:14
\* chatSessionRef: ChatView.tsx:15  the session the ref holds, 0 for null
\* cvRendered: the userInput and isLoading of the last render, which the handlers of the form read
\* cvSessions: the history (chat.messages) of every session created
\* cvSends: the sendMessageToChat calls made: instance, session, input and whether it has returned
\* cvIgnored: why handleSendMessage returned at its guard, for every submit that did
VARIABLES
  cvInstances,
  cvMounted,
  cvNote,
  cvMessages,
  userInput,
  isLoading,
  chatSessionRef,
  cvRendered,
  cvSessions,
  cvSends,
  cvIgnored

chatViewVars == <<cvInstances, cvMounted, cvNote, cvMessages, userInput, isLoading, chatSessionRef, cvRendered, cvSessions, cvSends, cvIgnored>>

\* notes: part_001:84  the notes list, newest first
\* activeNote: part_001:99  the active note, NullNote for null
\* currentView: part_001:79
\* noteToDelete: part_001:81  the note of the delete dialog, NullNote for null
\* shouldAutoPlay: part_001:82
\* lastId: the last Date.now() used as a note id
\* jobs: the asynchronous work pending: its kind, and the note, the transcription and the activeNote id its closure holds
\* deleted: the ids of the notes confirmDeleteNote removed
\* recordings: how many recordings were stopped
\* currentNote: NotesView.tsx:152
\* transcription: NotesView.tsx:155
\* saveTimer: NotesView.tsx:238  the note the armed autosave timer will save, NullNote when none is armed
VARIABLES
  notes,
  activeNote,
  currentView,
  noteToDelete,
  shouldAutoPlay,
  lastId,
  jobs,
  deleted,
  recordings,
  currentNote,
  transcription,
  saveTimer

appVars == <<notes, activeNote, currentView, noteToDelete, shouldAutoPlay, lastId, jobs, deleted, recordings, currentNote, transcription, saveTimer>>

\* scInstances: how many times ScannerView was mounted
\* scMounted: the ScannerView instance now mounted, 0 for none
\* stream: ScannerView.tsx:12  the stream held in state, 0 for null
\* cleanupStream: ScannerView.tsx:34-38  the stream of the render whose effect cleanup is registered, 0 for null
\* scError: ScannerView.tsx:13  whether the error message is set
\* isCapturing: ScannerView.tsx:14
\* cameraRequests: the instances whose getUserMedia call is pending
\* tracksLive: for every stream getUserMedia gave, whether its tracks are live
VARIABLES
  scInstances,
  scMounted,
  stream,
  cleanupStream,
  scError,
  isCapturing,
  cameraRequests,
  tracksLive

scannerVars == <<scInstances, scMounted, stream, cleanupStream, scError, isCapturing, cameraRequests, tracksLive>>

\* apView: part_001:79  the view App shows: Home, Scanner, Notes or MyFiles
\* apShouldAutoPlay: part_001:82  shouldAutoPlay, the prop of NotesView
\* apScan: the scan of handleCapture: none, pending with its note shown, pending with the view left (away), or done with its note shown
\* apNote: NotesView.tsx  the transcript of the note prop
\* apCurrentNote: NotesView.tsx:152  the transcript of currentNote
\* hasAutoPlayed: NotesView.tsx:162
\* apAutoDeps: the dependencies the auto-play effect last ran with: shouldAutoPlay, hasAutoPlayed and the transcript of currentNote, of this instance
\* apNoteDeps: the note the note effect last ran with, of this instance
\* autoTimer: NotesView.tsx:212  the transcript the armed auto-play timer will play
\* autoPlays: the transcripts handlePlayPause was called with by the auto-play timer
\* apOpened: how many times NotesView was opened
VARIABLES
  apView,
  apShouldAutoPlay,
  apScan,
  apNote,
  apCurrentNote,
  hasAutoPlayed,
  apAutoDeps,
  apNoteDeps,
  autoTimer,
  autoPlays,
  apOpened

autoVars == <<apView, apShouldAutoPlay, apScan, apNote, apCurrentNote, hasAutoPlayed, apAutoDeps, apNoteDeps, autoTimer, autoPlays, apOpened>>

\* isGeneratingSpeech: NotesView.tsx:157
\* plays: the calls of handlePlayPause that went on to generate audio: the argument, the estimated chunks of the text and how far the call is
\* recordTimer: NotesView.tsx:546  the estimated chunks of the transcript the armed timer will play, 0 when none is armed
VARIABLES
  isGeneratingSpeech,
  plays,
  recordTimer

playVars == <<isGeneratingSpeech, plays, recordTimer>>

\* what a step of generateSpeechFromText leaves alone
besideSpeech == <<serviceVars, wavVars, liveVars, chatViewVars, appVars, scannerVars, autoVars, playVars>>

\* what a step of the text wrappers leaves alone, chat.messages and the
\* requests sent apart
besideService == <<speechVars, requestVars, historyVars, wavVars, liveVars, chatViewVars, appVars, scannerVars, autoVars, playVars>>

\* what a step of float32ArrayToWav leaves alone
besideWav == <<speechVars, requestVars, historyVars, serviceVars, liveVars, chatViewVars, appVars, scannerVars, autoVars, playVars>>

\* what a step of the live transcription session leaves alone
besideLive == <<speechVars, requestVars, historyVars, serviceVars, wavVars, chatViewVars, appVars, scannerVars, autoVars, playVars>>

\* what a step of ChatView leaves alone
besideChatView == <<speechVars, requestVars, historyVars, serviceVars, wavVars, liveVars, appVars, scannerVars, autoVars, playVars>>

\* what a step of App and NotesView leaves alone
besideApp == <<speechVars, requestVars, historyVars, serviceVars, wavVars, liveVars, chatViewVars, scannerVars, autoVars, playVars>>

\* what a step of ScannerView leaves alone
besideScanner == <<speechVars, requestVars, historyVars, serviceVars, wavVars, liveVars, chatViewVars, appVars, autoVars, playVars>>

\* what a step of the auto-play of NotesView leaves alone
besideAuto == <<speechVars, requestVars, historyVars, serviceVars, wavVars, liveVars, chatViewVars, appVars, scannerVars, playVars>>

\* what a step of the playback of NotesView leaves alone
besidePlay == <<speechVars, requestVars, historyVars, serviceVars, wavVars, liveVars, chatViewVars, appVars, scannerVars, autoVars>>

vars == <<speechVars, requestVars, historyVars, serviceVars, wavVars, liveVars, chatViewVars, appVars, scannerVars, autoVars, playVars>>

Blob(bytes, type) == [bytes |-> bytes, type |-> type]
NoBlob == Blob(<<>>, "")

NoOutcome == [kind |-> "none", status |-> 0, body |-> [parse |-> "fail", value |-> JUndefined]]
Outcome(kind, status, body) == [kind |-> kind, status |-> status, body |-> body]

\* a wrapper call that has not been made
IdleCall ==
  [fn |-> "", arg |-> [data |-> "", mime |-> ""], pc |-> "idle", result |-> "",
   failed |-> FALSE]

Init ==
  /\ isGeneratingSpeech = FALSE
  /\ plays = <<>>
  /\ recordTimer = 0
  /\ apView = "Home"
  /\ apShouldAutoPlay = FALSE
  /\ apScan = "none"
  /\ apNote = <<>>
  /\ apCurrentNote = <<>>
  /\ hasAutoPlayed = FALSE
  /\ apAutoDeps = [ran |-> FALSE, should |-> FALSE, has |-> FALSE, transcript |-> <<>>]
  /\ apNoteDeps = [ran |-> FALSE, transcript |-> <<>>]
  /\ autoTimer = [armed |-> FALSE, text |-> <<>>]
  /\ autoPlays = <<>>
  /\ apOpened = 0
  /\ scInstances = 0
  /\ scMounted = 0
  /\ stream = 0
  /\ cleanupStream = 0
  /\ scError = FALSE
  /\ isCapturing = FALSE
  /\ cameraRequests = {}
  /\ tracksLive = <<>>
  /\ notes = <<>>
  /\ activeNote = [id |-> 0, transcript |-> <<>>, summary |-> <<>>]
  /\ currentView = "Home"
  /\ noteToDelete = [id |-> 0, transcript |-> <<>>, summary |-> <<>>]
  /\ shouldAutoPlay = FALSE
  /\ lastId = 0
  /\ jobs = <<>>
  /\ deleted = {}
  /\ recordings = 0
  /\ currentNote = [id |-> 0, transcript |-> <<>>, summary |-> <<>>]
  /\ transcription = <<>>
  /\ saveTimer = [id |-> 0, transcript |-> <<>>, summary |-> <<>>]
  /\ cvInstances = 0
  /\ cvMounted = 0
  /\ cvNote = [present |-> FALSE, transcript |-> <<>>]
  /\ cvMessages = <<>>
  /\ userInput = <<>>
  /\ isLoading = FALSE
  /\ chatSessionRef = 0
  /\ cvRendered = [userInput |-> <<>>, isLoading |-> FALSE]
  /\ cvSessions = <<>>
  /\ cvSends = <<>>
  /\ cvIgnored = {}
  /\ audioChunks = <<>>
  /\ isActive = TRUE
  /\ livePc = "idle"
  /\ combinedAudio = <<>>
  /\ added = 0
  /\ transcribed = {}
  /\ calls = [i \in 1..MaxCalls |-> IdleCall]
  /\ chatMessages = <<>>
  /\ sent = [i \in 1..MaxCalls |-> <<>>]
  /\ audioData = <<>>
  /\ sampleRate = 0
  /\ buffer = <<>>
  /\ wavI = 0
  /\ wavOffset = 0
  /\ wavBlob = NoBlob
  /\ wavPc = "idle"
  /\ text = <<>>
  /\ pc = "idle"
  /\ remainingText = <<>>
  /\ searched = -1
  /\ chunks = <<>>
  /\ ci = 1
  /\ audioParts = <<>>
  /\ result = NoBlob
  /\ error = NoError
  /\ inFlight = 0
  /\ timerSet = FALSE
  /\ clock = 0
  /\ requests = <<>>
  /\ responses = <<>>
  /\ fetchCalls = 0
  /\ requestCalls = 0
  /\ outcome = NoOutcome

\* ------------------------------------------------------------------ concatenation

RECURSIVE TotalLength(_)
\* part_000:228  audioParts.reduce((acc, part) => acc + part.length, 0)
TotalLength(parts) ==
  IF parts = <<>> THEN 0 ELSE Len(Head(parts)) + TotalLength(Tail(parts))

\* part_000:233  combinedBytes.set(part, offset)
SetAt(buf, part, offset) ==
  [i \in 1..Len(buf) |->
     IF i > offset /\ i <= offset + Len(part) THEN part[i - offset] ELSE buf[i]]

\* an offset that stays where it is
NextOffsetStuck(offset, part) == offset

\* part_000:234  offset += part.length
NextOffset(offset, part) == offset + Len(part)

RECURSIVE SetParts(_, _, _)
\* part_000:231-235
SetParts(buf, parts, offset) ==
  IF parts = <<>>
  THEN buf
  ELSE SetParts(SetAt(buf, Head(parts), offset), Tail(parts),
                NextOffset(offset, Head(parts)))

\* part_000:228-235  new Uint8Array(totalLength), filled part by part
Combine(parts) ==
  LET totalLength == TotalLength(parts)
      filled == SetParts(Run(0, totalLength), parts, 0)
  IN SubSeq(filled, 1, totalLength)

\* ------------------------------------------------------------------ generateSpeechFromText

\* a call without the early return for an empty text
CallNoGuard(T) ==
  /\ pc = "idle"
  /\ \E t \in T :
       /\ text' = t
       /\ remainingText' = t
  /\ pc' = "split"
  /\ chunks' = <<>>
  /\ audioParts' = <<>>
  /\ UNCHANGED <<searched, ci, result, error, requestVars, historyVars>>
  /\ UNCHANGED besideSpeech

\* part_000:168-191  the call, up to the splitting loop
Call(T) ==
  /\ pc = "idle"
  /\ \E t \in T :
       /\ text' = t
       /\ IF length(t) = 0
          THEN /\ result' = Blob(<<>>, "audio/mp3")
               /\ pc' = "done"
               /\ UNCHANGED remainingText
          ELSE /\ remainingText' = t
               /\ pc' = "split"
               /\ UNCHANGED result
  /\ chunks' = <<>>
  /\ audioParts' = <<>>
  /\ UNCHANGED <<searched, ci, error, requestVars, historyVars>>
  /\ UNCHANGED besideSpeech

CallSpeech == Call(CallTexts)

CallSplit == Call(SplitTexts)

\* part_000:193-216  one evaluation of the loop condition and, when it holds,
\* one iteration of the splitting loop
SplitStep ==
  /\ pc = "split"
  /\ IF length(remainingText) > 0
     THEN IF FitsInOneChunk(remainingText)
          THEN /\ chunks' = Append(chunks, remainingText)
               /\ pc' = "dispatch"
               /\ UNCHANGED <<remainingText, searched>>
          ELSE /\ searched' = FindBoundary(remainingText)
               /\ LET splitIndex == SplitIndex(searched')
                  IN /\ chunks' = Append(chunks, ChunkOf(remainingText, splitIndex))
                     /\ remainingText' = Remainder(remainingText, splitIndex)
               /\ UNCHANGED pc
     ELSE /\ pc' = "dispatch"
          /\ UNCHANGED <<chunks, remainingText, searched>>
  /\ ci' = 1
  /\ UNCHANGED <<text, audioParts, result, error, requestVars, historyVars>>
  /\ UNCHANGED besideSpeech

\* part_000:28-47  openaiRequest up to its await: the timer is armed and the
\* one fetch of this invocation is issued
IssueRequest(input) ==
  /\ requests' = Append(requests, input)
  /\ requestCalls' = requestCalls + 1
  /\ fetchCalls' = fetchCalls + 1
  /\ inFlight' = inFlight + 1
  /\ timerSet' = TRUE
  /\ clock' = 0

\* a loop that sends the chunk and moves on without waiting for the response
DispatchChunkNoAwait ==
  /\ pc = "dispatch"
  /\ ci <= Len(chunks)
  /\ IF length(trim(chunks[ci])) > 0
     THEN IssueRequest(chunks[ci])
     ELSE UNCHANGED <<requestVars, requests, requestCalls, fetchCalls>>
  /\ ci' = ci + 1
  /\ UNCHANGED <<text, pc, remainingText, searched, chunks, audioParts, result, error,
                 responses, outcome>>
  /\ UNCHANGED besideSpeech

\* a loop that sends every chunk, blank or not
DispatchChunkAll ==
  /\ pc = "dispatch"
  /\ ci <= Len(chunks)
  /\ IssueRequest(chunks[ci])
  /\ pc' = "await"
  /\ UNCHANGED <<text, remainingText, searched, chunks, ci, audioParts, result,
                 error, responses, outcome>>
  /\ UNCHANGED besideSpeech

\* part_000:221-224, 175-182  the next chunk of the for loop: skipped when
\* blank, otherwise sent, and the call waits for the response
DispatchChunk ==
  /\ pc = "dispatch"
  /\ ci <= Len(chunks)
  /\ IF length(trim(chunks[ci])) > 0
     THEN /\ IssueRequest(chunks[ci])
          /\ pc' = "await"
          /\ UNCHANGED ci
     ELSE /\ ci' = ci + 1
          /\ UNCHANGED <<pc, requestVars, requests, requestCalls, fetchCalls>>
  /\ UNCHANGED <<text, remainingText, searched, chunks, audioParts, result, error,
                 responses, outcome>>
  /\ UNCHANGED besideSpeech

\* a failure that is swallowed: the loop goes on with the next chunk
RejectContinue(e, how) ==
  /\ pc' = "dispatch"
  /\ ci' = ci + 1
  /\ timerSet' = FALSE
  /\ inFlight' = inFlight - 1
  /\ outcome' = how
  /\ UNCHANGED <<text, remainingText, searched, chunks, audioParts, result, error, clock,
                 requests, responses, fetchCalls, requestCalls>>
  /\ UNCHANGED besideSpeech

\* a failure after which the same request is sent once more
RejectRetry(e, how) ==
  /\ IF fetchCalls < 2 * requestCalls
     THEN /\ fetchCalls' = fetchCalls + 1
          /\ timerSet' = TRUE
          /\ clock' = 0
          /\ UNCHANGED <<pc, error, inFlight>>
     ELSE /\ pc' = "rejected"
          /\ error' = e
          /\ timerSet' = FALSE
          /\ inFlight' = inFlight - 1
          /\ UNCHANGED <<fetchCalls, clock>>
  /\ outcome' = how
  /\ UNCHANGED <<text, remainingText, searched, chunks, ci, audioParts, result,
                 requests, responses, requestCalls>>
  /\ UNCHANGED besideSpeech

\* part_000:57-63, 240-243  an error leaves openaiRequest through its catch
\* block (the timer is cleared) and generateSpeechFromText through its own,
\* which rethrows it: the call rejects with e
Reject(e, how) ==
  /\ pc' = "rejected"
  /\ error' = e
  /\ timerSet' = FALSE
  /\ inFlight' = inFlight - 1
  /\ outcome' = how
  /\ UNCHANGED <<text, remainingText, searched, chunks, ci, audioParts, result, clock,
                 requests, responses, fetchCalls, requestCalls>>
  /\ UNCHANGED besideSpeech

\* time passes while the fetch is pending; the timer fires no later than
\* timeoutMs after it was set
Tick ==
  /\ pc = "await"
  /\ clock < timeoutMs
  /\ clock' = Min(clock + TickMs, timeoutMs)
  /\ UNCHANGED <<speechVars, inFlight, timerSet, historyVars>>
  /\ UNCHANGED besideSpeech

\* part_000:39  the timer fires: controller.abort(), fetch rejects with an
\* AbortError
TimerFire ==
  /\ pc = "await"
  /\ timerSet
  /\ clock >= timeoutMs
  /\ Reject(Catch(AbortError), Outcome("timeout", 0, NoOutcome.body))

\* part_000:42  fetch rejects: no response at all
FetchReject ==
  /\ pc = "await"
  /\ Reject(Catch(NetworkError), Outcome("network", 0, NoOutcome.body))

\* part_000:49-56  a response with a success status: the timer is cleared and
\* the response returned; fetchAudioChunk goes on to read its body
FetchResponseOk ==
  /\ pc = "await"
  /\ \E status \in {st \in Statuses : ok(st)} :
       outcome' = Outcome("ok", status, NoOutcome.body)
  /\ timerSet' = FALSE
  /\ pc' = "body"
  /\ UNCHANGED <<text, remainingText, searched, chunks, ci, audioParts, result, error,
                 inFlight, clock, requests, responses, fetchCalls, requestCalls>>
  /\ UNCHANGED besideSpeech

\* part_000:49-54  a response with any other status
FetchResponseNotOk ==
  /\ pc = "await"
  /\ \E status \in {st \in Statuses : ~ok(st)}, body \in ErrorBodies :
       Reject(Catch(NotOkError(status, body)), Outcome("http", status, body))

\* part_000:183-184, 223  the body is read and pushed
BodyRead ==
  /\ pc = "body"
  /\ \E b \in Bodies :
       /\ audioParts' = Append(audioParts, b)
       /\ responses' = Append(responses, b)
  /\ inFlight' = inFlight - 1
  /\ ci' = ci + 1
  /\ pc' = "dispatch"
  /\ UNCHANGED <<text, remainingText, searched, chunks, result, error, timerSet, clock,
                 requests, fetchCalls, requestCalls, outcome>>
  /\ UNCHANGED besideSpeech

\* part_000:183  response.arrayBuffer() rejects
BodyFail ==
  /\ pc = "body"
  /\ Reject(BodyError, Outcome("body", outcome.status, NoOutcome.body))

\* part_000:227-238  after the last chunk: concatenate and resolve
Finish ==
  /\ pc = "dispatch"
  /\ ci > Len(chunks)
  /\ result' = Blob(Combine(audioParts), "audio/mpeg")
  /\ pc' = "done"
  /\ UNCHANGED <<text, remainingText, searched, chunks, ci, audioParts, error,
                 requestVars, historyVars>>
  /\ UNCHANGED besideSpeech

Next ==
  \/ CallSpeech
  \/ SplitStep
  \/ DispatchChunk
  \/ Tick
  \/ TimerFire
  \/ FetchReject
  \/ FetchResponseOk
  \/ FetchResponseNotOk
  \/ BodyRead
  \/ BodyFail
  \/ Finish

Spec == Init /\ [][Next]_vars

\* the splitter alone, on the larger family of texts
NextSplit == CallSplit \/ SplitStep

SpecSplit == Init /\ [][NextSplit]_vars

CallExample == Call(ExampleTexts)

\* the splitting loop on the example texts
NextExample == CallExample \/ SplitStep

SpecExample == Init /\ [][NextExample]_vars

\* ------------------------------------------------------------------ text wrappers

Wrappers ==
  {"summarizeTranscript", "translateText", "sendMessageToChat",
   "transcribeAudioFile", "scanImageForText"}

\* the arguments of a wrapper call: the text, message or base64 data, and the
\* MIME type (the target language for translateText)
ArgsOf(fn) ==
  IF fn = "summarizeTranscript" THEN [data : {"", "meeting notes"}, mime : {""}]
  ELSE IF fn = "translateText" THEN [data : {"", "meeting notes"}, mime : {"French"}]
  ELSE IF fn = "sendMessageToChat" THEN [data : {"q1", "q2"}, mime : {""}]
  ELSE IF fn = "transcribeAudioFile"
       THEN [data : {"", "UklGRg==", "%%%"}, mime : {"", "audio/wav"}]
  ELSE [data : {"", "iVBORw=="}, mime : {"", "image/png"}]

\* atob accepts the string
ValidBase64(str) == str # "%%%"

\* a guard that only the two text wrappers have
EarlyReturnTextOnly(fn, arg) ==
  fn \in {"summarizeTranscript", "translateText"} /\ arg.data = ""

\* part_000:68, 96, 248, 295  the checks made before anything else
EarlyReturn(fn, arg) ==
  IF fn \in {"summarizeTranscript", "translateText"} THEN arg.data = ""
  ELSE IF fn = "transcribeAudioFile" THEN arg.data = "" \/ arg.mime = ""
  ELSE IF fn = "scanImageForText" THEN arg.data = ""
  ELSE FALSE

\* part_000:68, 96, 248, 295  what those checks return
EarlyResult(fn) ==
  IF fn = "transcribeAudioFile" THEN "Invalid file data provided."
  ELSE IF fn = "scanImageForText" THEN "Invalid image data provided."
  ELSE ""

\* part_000:90, 118, 162, 289, 336  what the catch blocks return
ErrorPlaceholder(fn) ==
  IF fn = "summarizeTranscript"
  THEN "An error occurred while summarizing the transcript."
  ELSE IF fn = "translateText"
  THEN "An error occurred while translating the text."
  ELSE IF fn = "sendMessageToChat"
  THEN "An error occurred while communicating with the assistant."
  ELSE IF fn = "transcribeAudioFile"
  THEN "An error occurred during transcription. The file might be too large or in an unsupported format."
  ELSE "An error occurred while scanning. Ensure the file is a clear image (PNG/JPG)."

\* part_000:87, 115, 154, 286, 329  what is returned for a response without text
EmptyFallback(fn) ==
  IF fn = "summarizeTranscript" THEN "Could not generate summary."
  ELSE IF fn = "translateText" THEN "Could not generate translation."
  ELSE IF fn = "sendMessageToChat" THEN "I'm sorry, I couldn't process that."
  ELSE IF fn = "transcribeAudioFile"
  THEN "Could not transcribe the audio. The content may be empty or unclear."
  ELSE "The AI couldn't see any clear text. Try taking a closer photo or ensuring there is good lighting."

\* part_000:70, 98, 143, 283, 298
Endpoint(fn) ==
  IF fn = "transcribeAudioFile" THEN "/audio/transcriptions" ELSE "/chat/completions"

\* a JavaScript string with its length
Str(str, len) == [text |-> str, length |-> len]

\* what decoding a success response gives: response.json() or response.text()
\* rejects (ok = FALSE), or the text found in it; a missing text counts as ""
Decodes ==
  {[ok |-> FALSE, content |-> Str("", 0)]}
  \cup {[ok |-> TRUE, content |-> c] :
          c \in {Str("", 0), Str("Hi", 2), Str("Hello world", 11)}}

\* part_000:87, 115, 154, 286, 327-333  the value returned for decoded text
Returned(fn, content) ==
  IF fn = "scanImageForText"
  THEN IF content.text = "" \/ content.length < 5
       THEN EmptyFallback(fn)
       ELSE content.text
  ELSE IF content.text # "" THEN content.text ELSE EmptyFallback(fn)

\* every error openaiRequest can throw
RequestErrors ==
  {Catch(AbortError), Catch(NetworkError)}
  \cup {Catch(NotOkError(st, b)) : st \in {x \in Statuses : ~ok(x)}, b \in ErrorBodies}

\* part_000:124-129, 146
SystemTurn == [role |-> "system", content |-> "You are a helpful assistant."]

Turn(role, content) == [role |-> role, content |-> content]

\* a request that carries the new message only
ChatRequestLast(history) == <<SystemTurn, history[Len(history)]>>

\* part_000:145-148  [{ role: 'system', ... }, ...chat.messages]
ChatRequest(history) == <<SystemTurn>> \o history

\* a catch block that rethrows
CaughtRethrow(c, e) == [c EXCEPT !.pc = "threw"]

\* part_000:88-91, 116-119, 160-163, 287-290, 334-337  the catch block of a
\* wrapper: the error is logged and the placeholder returned
Caught(c, e) == [c EXCEPT !.pc = "returned", !.result = ErrorPlaceholder(c.fn)]

\* a wrapper is called: it returns early, or fails before the request
\* (atob throws on malformed base64), or sends its one request and waits;
\* sendMessageToChat first pushes the user turn (part_000:141)
WrapperCall ==
  \E i \in 1..MaxCalls :
    /\ calls[i].pc = "idle"
    /\ IF i = 1 THEN TRUE ELSE calls[i - 1].pc # "idle"
    /\ \E fn \in Wrappers :
         \E arg \in ArgsOf(fn) :
           LET c == [IdleCall EXCEPT !.fn = fn, !.arg = arg]
           IN IF EarlyReturn(fn, arg)
              THEN /\ calls' = [calls EXCEPT ![i] =
                                  [c EXCEPT !.pc = "returned", !.result = EarlyResult(fn)]]
                   /\ UNCHANGED <<chatMessages, sent>>
              ELSE IF fn = "transcribeAudioFile" /\ ~ValidBase64(arg.data)
              THEN /\ calls' = [calls EXCEPT ![i] =
                                  Caught(c, Err("InvalidCharacterError", <<"atob">>))]
                   /\ UNCHANGED <<chatMessages, sent>>
              ELSE /\ calls' = [calls EXCEPT ![i] = [c EXCEPT !.pc = "await"]]
                   /\ chatMessages' =
                        IF fn = "sendMessageToChat"
                        THEN Append(chatMessages, Turn("user", arg.data))
                        ELSE chatMessages
                   /\ sent' = [sent EXCEPT ![i] = Append(@,
                        [endpoint |-> Endpoint(fn),
                         input |-> arg.data,
                         messages |-> IF fn = "sendMessageToChat"
                                      THEN ChatRequest(chatMessages')
                                      ELSE <<>>])]
    /\ UNCHANGED besideService

\* openaiRequest throws (timeout, network error, status that is not ok)
WrapperFail ==
  \E i \in 1..MaxCalls :
    /\ calls[i].pc = "await"
    /\ \E e \in RequestErrors :
         calls' = [calls EXCEPT ![i] = [Caught(@, e) EXCEPT !.failed = TRUE]]
    /\ UNCHANGED <<chatMessages, sent, besideService>>

\* openaiRequest returns the response
WrapperRespond ==
  \E i \in 1..MaxCalls :
    /\ calls[i].pc = "await"
    /\ calls' = [calls EXCEPT ![i].pc = "decode"]
    /\ UNCHANGED <<chatMessages, sent, besideService>>

\* the response is decoded and the wrapper returns; sendMessageToChat pushes
\* the assistant turn (part_000:157)
WrapperDecode ==
  \E i \in 1..MaxCalls :
    /\ calls[i].pc = "decode"
    /\ \E d \in Decodes :
         IF ~d.ok
         THEN /\ calls' = [calls EXCEPT ![i] = Caught(@, Err("SyntaxError", <<"json">>))]
              /\ UNCHANGED chatMessages
         ELSE LET value == Returned(calls[i].fn, d.content)
              IN /\ calls' = [calls EXCEPT ![i].pc = "returned", ![i].result = value]
                 /\ chatMessages' =
                      IF calls[i].fn = "sendMessageToChat"
                      THEN Append(chatMessages, Turn("assistant", value))
                      ELSE chatMessages
    /\ UNCHANGED <<sent, besideService>>

NextService == WrapperCall \/ WrapperFail \/ WrapperRespond \/ WrapperDecode

SpecService == Init /\ [][NextService]_vars

\* ------------------------------------------------------------------ float32ArrayToWav

\* a JavaScript number, as far as the samples need it: NaN, or the rational
\* num / den with den > 0
NaN == [nan |-> TRUE, num |-> 0, den |-> 1]
Num(n, d) == [nan |-> FALSE, num |-> n, den |-> d]

\* the samples of an input: NaN and -1.5, -1, -0.5, 0, 0.5, 1, 1.5
Samples == {NaN} \cup {Num(n, 2) : n \in -3..3}

RECURSIVE SeqsUpTo(_, _)
\* the sequences over S of at most n elements
SeqsUpTo(S, n) ==
  IF n = 0 THEN {<<>>}
  ELSE LET shorter == SeqsUpTo(S, n - 1)
       IN shorter \cup {Append(q, x) : q \in shorter, x \in S}

\* no upper clamp at all
MathMin1None(x) == x

\* Math.min(1, x)
MathMin1(x) ==
  IF x.nan THEN x ELSE IF x.num > x.den THEN Num(1, 1) ELSE x

\* Math.max(-1, x)
MathMaxNeg1(x) ==
  IF x.nan THEN x ELSE IF x.num < -x.den THEN Num(-1, 1) ELSE x

\* x * k for an integer k
Times(x, k) == IF x.nan THEN x ELSE Num(x.num * k, x.den)

\* part_000:435-436
IntSample(x) ==
  LET sample == MathMaxNeg1(MathMin1(x))
  IN IF ~sample.nan /\ sample.num < 0
     THEN Times(sample, 32768)
     ELSE Times(sample, 32767)

\* the integer part of x, rounded towards zero
Trunc(x) ==
  IF x.num >= 0 THEN x.num \div x.den ELSE -((-x.num) \div x.den)

\* the little-endian bytes DataView.setUint16 and setInt16 write: the value
\* is converted to an integer modulo 2^16, NaN to 0
Bytes16(x) ==
  LET u == IF x.nan THEN 0 ELSE Trunc(x) % 65536
  IN <<u % 256, u \div 256>>

\* the little-endian bytes DataView.setUint32 writes: the low 32 bits of the
\* integer, NaN as 0
Bytes32(x) ==
  LET u == IF x.nan THEN 0 ELSE Trunc(x)
  IN <<u % 256, (u \div 256) % 256, (u \div 65536) % 256,
       (u \div 16777216) % 256>>

\* str.charCodeAt(i) of the characters in the header's tags
charCodeAt(c) ==
  CASE c = "R" -> 82 [] c = "I" -> 73 [] c = "F" -> 70 [] c = "W" -> 87
    [] c = "A" -> 65 [] c = "V" -> 86 [] c = "E" -> 69 [] c = "f" -> 102
    [] c = "m" -> 109 [] c = "t" -> 116 [] c = " " -> 32 [] c = "d" -> 100
    [] c = "a" -> 97

\* the bytes at `offset` of buf replaced by `bytes`
Write(buf, offset, bytes) ==
  SubSeq(buf, 1, offset) \o bytes \o SubSeq(buf, offset + Len(bytes) + 1, Len(buf))

\* part_000:412-416
writeString(buf, offset, str) ==
  Write(buf, offset, [i \in 1..Len(str) |-> charCodeAt(str[i])])

\* part_000:404
bytesPerSample == bitsPerSample \div 8

\* part_000:405
blockAlign == numChannels * bytesPerSample

\* part_000:406
byteRate(rate) == rate * blockAlign

\* a data size that counts samples, not bytes
dataSizeInSamples(data) == Len(data)

\* part_000:407
dataSize(data) == Len(data) * bytesPerSample

\* part_000:408-430  the zero-filled buffer with the header written into it
Header(data, rate) ==
  LET b0 == Run(0, HeaderSize + dataSize(data))
      b1 == writeString(b0, 0, <<"R", "I", "F", "F">>)
      b2 == Write(b1, 4, Bytes32(Num(36 + dataSize(data), 1)))
      b3 == writeString(b2, 8, <<"W", "A", "V", "E">>)
      b4 == writeString(b3, 12, <<"f", "m", "t", " ">>)
      b5 == Write(b4, 16, Bytes32(Num(16, 1)))
      b6 == Write(b5, 20, Bytes16(Num(1, 1)))
      b7 == Write(b6, 22, Bytes16(Num(numChannels, 1)))
      b8 == Write(b7, 24, Bytes32(Num(rate, 1)))
      b9 == Write(b8, 28, Bytes32(Num(byteRate(rate), 1)))
      b10 == Write(b9, 32, Bytes16(Num(blockAlign, 1)))
      b11 == Write(b10, 34, Bytes16(Num(bitsPerSample, 1)))
      b12 == writeString(b11, 36, <<"d", "a", "t", "a">>)
  IN Write(b12, 40, Bytes32(Num(dataSize(data), 1)))

\* part_000:401-433  the call, from processLiveTranscription (part_000:379),
\* up to the sample loop
WavCall ==
  /\ wavPc = "idle"
  /\ \E data \in SeqsUpTo(Samples, MaxSamples) :
       /\ audioData' = data
       /\ buffer' = Header(data, LiveSampleRate)
  /\ sampleRate' = LiveSampleRate
  /\ wavI' = 0
  /\ wavOffset' = HeaderSize
  /\ wavPc' = "samples"
  /\ UNCHANGED wavBlob
  /\ UNCHANGED besideWav

\* part_000:434-439  one iteration of the sample loop
WavSample ==
  /\ wavPc = "samples"
  /\ wavI < Len(audioData)
  /\ buffer' = Write(buffer, wavOffset, Bytes16(IntSample(audioData[wavI + 1])))
  /\ wavOffset' = wavOffset + 2
  /\ wavI' = wavI + 1
  /\ UNCHANGED <<audioData, sampleRate, wavBlob, wavPc>>
  /\ UNCHANGED besideWav

\* part_000:441  return new Blob([buffer], { type: 'audio/wav' })
WavReturn ==
  /\ wavPc = "samples"
  /\ ~(wavI < Len(audioData))
  /\ wavBlob' = Blob(buffer, "audio/wav")
  /\ wavPc' = "returned"
  /\ UNCHANGED <<audioData, sampleRate, buffer, wavI, wavOffset>>
  /\ UNCHANGED besideWav

NextWav == WavCall \/ WavSample \/ WavReturn

SpecWav == Init /\ [][NextWav]_vars

\* ------------------------------------------------------------------ live transcription

\* a Float32Array chunk is known by the order in which it was added

\* part_000:361  session.audioChunks.push(chunk)
addAudioChunkPush(held, chunk) == Append(held, chunk)

\* part_000:359-363  addAudioChunk(session, chunk)
AddAudioChunk ==
  /\ added < MaxChunks
  /\ IF isActive
     THEN /\ audioChunks' = addAudioChunkPush(audioChunks, added + 1)
          /\ added' = added + 1
     ELSE UNCHANGED <<audioChunks, added>>
  /\ UNCHANGED <<isActive, livePc, combinedAudio, transcribed>>
  /\ UNCHANGED besideLive

\* part_000:365-382  processLiveTranscription up to its first await: nothing
\* to do for an empty buffer, otherwise the chunks buffered now are combined
\* and converted
ProcessStart ==
  /\ livePc = "idle"
  /\ IF Len(audioChunks) = 0
     THEN UNCHANGED <<livePc, combinedAudio>>
     ELSE /\ combinedAudio' = audioChunks
          /\ livePc' = "buffer"
  /\ UNCHANGED <<audioChunks, isActive, added, transcribed>>
  /\ UNCHANGED besideLive

\* part_000:382-390  the bytes arrive, are encoded and handed to
\* transcribeAudioFile
ProcessEncode ==
  /\ livePc = "buffer"
  /\ transcribed' = transcribed \cup {combinedAudio[k] : k \in 1..Len(combinedAudio)}
  /\ livePc' = "transcribe"
  /\ UNCHANGED <<audioChunks, isActive, combinedAudio, added>>
  /\ UNCHANGED besideLive

\* part_000:394-397  wavBlob.arrayBuffer() rejects: '' is returned and the
\* buffer is left as it is
ProcessCatch ==
  /\ livePc = "buffer"
  /\ livePc' = "idle"
  /\ combinedAudio' = <<>>
  /\ UNCHANGED <<audioChunks, isActive, added, transcribed>>
  /\ UNCHANGED besideLive

\* part_000:390-393  transcribeAudioFile returns (it never rejects), the
\* buffer is replaced by an empty one and the text returned
ProcessReturn ==
  /\ livePc = "transcribe"
  /\ audioChunks' = <<>>
  /\ livePc' = "idle"
  /\ combinedAudio' = <<>>
  /\ UNCHANGED <<isActive, added, transcribed>>
  /\ UNCHANGED besideLive

NextLive ==
  AddAudioChunk \/ ProcessStart \/ ProcessEncode \/ ProcessCatch \/ ProcessReturn

SpecLive == Init /\ [][NextLive]_vars

\* ------------------------------------------------------------------ ChatView

\* how many messages the user sends, how many times the view is opened
MaxSends == 2
MaxMounts == 2

\* how many sessions there are when the note is last replaced
MaxSessions == 2

\* what the user types
ChatInputs == {<<>>, <<" ">>, <<"q">>}

Transcribing == <<"[", "T", "r", "a", "n", "s", "c", "r", "i", "b", "i", "n", "g">>

\* the notes the view is opened with: none, one still transcribing, one with
\* an empty transcript, one with a text
NoNote == [present |-> FALSE, transcript |-> <<>>]
ChatNotes ==
  {NoNote} \cup
  {[present |-> TRUE, transcript |-> t] :
     t \in {Transcribing \o <<".">>, <<>>, <<"n", "o", "t", "e">>}}

startsWith(s, p) == Len(s) >= Len(p) /\ SubSeq(s, 1, Len(p)) = p

\* ChatView.tsx:18  note?.transcript.startsWith('[Transcribing')
isTranscribing(n) == n.present /\ startsWith(n.transcript, Transcribing)

Message(sender, t) == [sender |-> sender, text |-> t]

WaitMessage == Message("ai", <<"w", "a", "i", "t">>)
ReadyMessage == Message("ai", <<"r", "e", "a", "d", "y">>)

\* a handler that sends whatever the form holds unless the note is missing
\* or still transcribing
CanSendWhileLoading(r, n) == n.present /\ ~isTranscribing(n)

\* ChatView.tsx:48  the guard of handleSendMessage, read from the render r
\* the handler was made in
CanSend(r, n) ==
  /\ length(trim(r.userInput)) # 0
  /\ ~r.isLoading
  /\ n.present
  /\ ~isTranscribing(n)

\* which of the four conditions of the guard turned a submit away
Reasons(r, n) ==
  {w \in {"blank", "loading", "none", "transcribing"} :
     \/ w = "blank" /\ length(trim(r.userInput)) = 0
     \/ w = "loading" /\ r.isLoading
     \/ w = "none" /\ ~n.present
     \/ w = "transcribing" /\ isTranscribing(n)}

Rendered == [userInput |-> userInput, isLoading |-> isLoading]

\* ChatView.tsx:20-39  the effect on [note, isTranscribing]: a session for a
\* note with a transcript that is ready, and the one initial message
NoteEffect(n) ==
  IF ~n.present
  THEN UNCHANGED <<cvMessages, chatSessionRef, cvSessions>>
  ELSE /\ IF Len(n.transcript) # 0 /\ ~isTranscribing(n)
          THEN /\ cvSessions' = Append(cvSessions, <<>>)
               /\ chatSessionRef' = Len(cvSessions) + 1
          ELSE UNCHANGED <<chatSessionRef, cvSessions>>
       /\ cvMessages' = <<IF isTranscribing(n) THEN WaitMessage
                                               ELSE ReadyMessage>>

\* part_001:419-420  App renders ChatView with the active note: a new
\* instance with its initial state (ChatView.tsx:12-15), whose effect runs
CvMount ==
  /\ cvMounted = 0
  /\ cvInstances < MaxMounts
  /\ \E n \in ChatNotes :
       /\ cvNote' = n
       /\ cvInstances' = cvInstances + 1
       /\ cvMounted' = cvInstances + 1
       /\ userInput' = <<>>
       /\ isLoading' = FALSE
       /\ cvRendered' = [userInput |-> <<>>, isLoading |-> FALSE]
       /\ IF n.present /\ Len(n.transcript) # 0 /\ ~isTranscribing(n)
          THEN /\ cvSessions' = Append(cvSessions, <<>>)
               /\ chatSessionRef' = Len(cvSessions) + 1
          ELSE /\ chatSessionRef' = 0
               /\ UNCHANGED cvSessions
       /\ cvMessages' = IF ~n.present THEN <<>>
                        ELSE <<IF isTranscribing(n) THEN WaitMessage
                                                    ELSE ReadyMessage>>
  /\ UNCHANGED <<cvSends, cvIgnored, besideChatView>>

\* ChatView.tsx:79, part_001:419  back to the note: the instance is unmounted
CvBack ==
  /\ cvMounted # 0
  /\ cvMounted' = 0
  /\ UNCHANGED <<cvInstances, cvNote, cvMessages, userInput, isLoading,
                 chatSessionRef, cvRendered, cvSessions, cvSends, cvIgnored>>
  /\ UNCHANGED besideChatView

\* part_001:216-221, 283-286  App replaces the active note while the view is
\* open, when the import of the note completes or a save of the note made
\* by NotesView arrives: the note prop changes and the effect runs again
CvNoteChanged ==
  /\ cvMounted # 0
  /\ cvNote.present
  /\ Len(cvSessions) < MaxSessions
  /\ \E n \in ChatNotes :
       /\ n.present
       /\ ~isTranscribing(n)
       /\ cvNote' = n
       /\ NoteEffect(n)
  /\ UNCHANGED <<cvInstances, cvMounted, userInput, isLoading, cvRendered,
                 cvSends, cvIgnored>>
  /\ UNCHANGED besideChatView

\* ChatView.tsx:112-115  the input, disabled while loading or transcribing
TypeInput ==
  /\ cvMounted # 0
  /\ ~(cvRendered.isLoading \/ isTranscribing(cvNote))
  /\ \E v \in ChatInputs :
       /\ v # userInput
       /\ userInput' = v
       /\ cvRendered' = [cvRendered EXCEPT !.userInput = v]
  /\ UNCHANGED <<cvInstances, cvMounted, cvNote, cvMessages, isLoading,
                 chatSessionRef, cvSessions, cvSends, cvIgnored>>
  /\ UNCHANGED besideChatView

\* ChatView.tsx:46-60, part_000:141-148  the form is submitted:
\* handleSendMessage up to its await, sendMessageToChat up to its request.
\* The updates of a submit event are rendered before the next event.
Submit ==
  /\ cvMounted # 0
  /\ Len(cvSends) < MaxSends
  /\ IF ~CanSend(cvRendered, cvNote)
     THEN /\ cvIgnored' = cvIgnored \cup Reasons(cvRendered, cvNote)
          /\ UNCHANGED <<cvMessages, userInput, isLoading, chatSessionRef,
                         cvRendered, cvSessions, cvSends>>
     ELSE LET created == IF chatSessionRef = 0
                         THEN Append(cvSessions, <<>>)
                         ELSE cvSessions
              session == IF chatSessionRef = 0 THEN Len(cvSessions) + 1
                                               ELSE chatSessionRef
              currentInput == cvRendered.userInput
          IN  /\ cvMessages' = Append(cvMessages,
                                      Message("user", currentInput))
              /\ userInput' = <<>>
              /\ isLoading' = TRUE
              /\ chatSessionRef' = session
              /\ cvSessions' =
                   [created EXCEPT
                      ![session] = Append(@, Turn("user", currentInput))]
              /\ cvSends' = Append(cvSends,
                                   [instance |-> cvMounted,
                                    session |-> session,
                                    input |-> currentInput,
                                    done |-> FALSE])
              /\ cvRendered' = [userInput |-> <<>>, isLoading |-> TRUE]
              /\ UNCHANGED cvIgnored
  /\ UNCHANGED <<cvInstances, cvMounted, cvNote>>
  /\ UNCHANGED besideChatView

AssistantMessage == <<"a">>
ChatErrorMessage == <<"e">>

\* part_000:150-163, ChatView.tsx:60-63  a send returns, with the answer
\* pushed to the history or with the error text, and the handler of the
\* instance that made it goes on: it appends the message and clears
\* isLoading, which has no effect on an instance no longer mounted
SendReturn ==
  \E k \in 1..Len(cvSends) : \E answered \in BOOLEAN :
    LET send == cvSends[k]
        responseText == IF answered THEN AssistantMessage ELSE ChatErrorMessage
    IN  /\ ~send.done
        /\ cvSends' = [cvSends EXCEPT ![k].done = TRUE]
        /\ cvSessions' =
             IF answered
             THEN [cvSessions EXCEPT
                     ![send.session] =
                        Append(@, Turn("assistant", responseText))]
             ELSE cvSessions
        /\ IF send.instance = cvMounted
           THEN /\ cvMessages' = Append(cvMessages,
                                        Message("ai", responseText))
                /\ isLoading' = FALSE
           ELSE UNCHANGED <<cvMessages, isLoading>>
        /\ UNCHANGED <<cvInstances, cvMounted, cvNote, userInput,
                       chatSessionRef, cvRendered, cvIgnored>>
        /\ UNCHANGED besideChatView

\* the render that follows the updates made after the await
CvRender ==
  /\ cvMounted # 0
  /\ cvRendered # Rendered
  /\ cvRendered' = Rendered
  /\ UNCHANGED <<cvInstances, cvMounted, cvNote, cvMessages, userInput,
                 isLoading, chatSessionRef, cvSessions, cvSends, cvIgnored>>
  /\ UNCHANGED besideChatView

NextChatView ==
  CvMount \/ CvBack \/ CvNoteChanged \/ TypeInput \/ Submit \/ SendReturn \/
  CvRender

SpecChatView == Init /\ [][NextChatView]_vars

\* ------------------------------------------------------------------ App and NotesView

\* how many notes are created, how many asynchronous jobs are pending at a
\* time
MaxNotes == 2
MaxJobs == 1

\* how many recordings are made
MaxRecordings == 1

Note(id, t) == [id |-> id, transcript |-> t, summary |-> <<>>]

\* null, for a note
NullNote == Note(0, <<>>)

\* part_001:143, 247, 269, 296, 321  the placeholder transcripts, and
\* part_001:312-315 the transcript of a note for a file that is not read
Placeholder(kind) ==
  CASE kind = "media" -> Transcribing \o <<".">>
    [] kind = "pdf" -> <<"[", "E", "x", "t", "r", "a", "c", "t", "i", "n", "g">>
    [] kind = "docx" -> <<"[", "E", "x", "t", "r", "a", "c", "t", "i", "n", "g">>
    [] kind = "image" -> <<"[", "S", "c", "a", "n", "n", "i", "n", "g">>
    [] kind = "scan" -> <<"[", "S", "c", "a", "n", "n", "i", "n", "g", " ",
                          "i", "m", "a", "g", "e">>
    [] kind = "doc" -> <<"[", "F", "i", "l", "e">>

ImportKinds == {"media", "pdf", "docx", "image", "doc"}

\* the kinds of job whose completion replaces the transcript of a placeholder
PlaceholderKinds == {"media", "pdf", "docx", "image", "scan"}

\* what a transcription, an extraction or a scan gives, and the message the
\* catch blocks write (part_001:158, 261, 289, 306, 331)
JobTexts == {<<"t">>}
JobError == <<"[", "E", "r", "r", "o", "r">>

\* what the user types into the transcript
EditTexts == {<<"e">>}

Job(kind, n, a, t) ==
  [kind |-> kind, note |-> n, activeId |-> a, transcription |-> t]

\* the jobs left when job k has settled
Without(q, k) == SubSeq(q, 1, k - 1) \o SubSeq(q, k + 1, Len(q))

\* the dialog of part_001:449-455 is closed
NoDialog == noteToDelete = NullNote

\* NotesView.tsx:152, 226-245, part_001:417-418  NotesView after App has
\* rendered: it exists only in the Notes view, starts from the note prop,
\* and its note effect copies a note prop that changed; the autosave timer
\* is cleared by the cleanup of its effect
NotesViewFollows ==
  IF currentView' # "Notes"
  THEN /\ currentNote' = NullNote
       /\ transcription' = <<>>
       /\ saveTimer' = NullNote
  ELSE IF currentView # "Notes" \/ (activeNote' # activeNote /\
                                    activeNote' # NullNote)
  THEN /\ currentNote' = activeNote'
       /\ transcription' = activeNote'.transcript
       /\ saveTimer' = NullNote
  ELSE UNCHANGED <<currentNote, transcription, saveTimer>>

\* part_001:193-205  createAndActivateNote; Date.now() is later at every call
createAndActivateNote(t) ==
  /\ lastId' = lastId + 1
  /\ notes' = <<Note(lastId + 1, t)>> \o notes
  /\ activeNote' = Note(lastId + 1, t)
  /\ currentView' = "Notes"

\* part_001:212-220  the update saveNote makes to the notes list
saveNoteList(held, n) ==
  IF \E k \in 1..Len(held) : held[k].id = n.id
  THEN LET existingIndex ==
             CHOOSE k \in 1..Len(held) :
               /\ held[k].id = n.id
               /\ \A j \in 1..(k - 1) : held[j].id # n.id
       IN  [held EXCEPT ![existingIndex] = n]
  ELSE <<n>> \o held

\* part_001:211-224  saveNote(noteToSave), as made by the render in which
\* the active note had the id a
saveNote(n, a) ==
  /\ notes' = saveNoteList(notes, n)
  /\ activeNote' = IF a = n.id THEN n ELSE activeNote

\* a completion that writes the transcript by position in the list
ReplaceTranscriptFirst(held, id, t) ==
  [k \in 1..Len(held) |->
     IF k = 1 THEN [held[k] EXCEPT !.transcript = t] ELSE held[k]]

\* part_001:150, 253, 283, 300, 325  prevNotes.map(n => n.id === tempNote.id
\* ? {...n, transcript} : n)
ReplaceTranscript(held, id, t) ==
  [k \in 1..Len(held) |->
     IF held[k].id = id THEN [held[k] EXCEPT !.transcript = t] ELSE held[k]]

\* part_001:207-209  startNewNote
StartNewNote ==
  /\ NoDialog
  /\ lastId < MaxNotes
  /\ createAndActivateNote(<<>>)
  /\ NotesViewFollows
  /\ UNCHANGED <<noteToDelete, shouldAutoPlay, jobs, deleted, recordings>>
  /\ UNCHANGED besideApp

\* part_001:231-342  handleFileImport up to its first await, for a media
\* file, a PDF, a DOCX, an image or a document that is not read: the
\* placeholder note is created and activated
ImportFile ==
  /\ NoDialog
  /\ currentView = "Home"
  /\ lastId < MaxNotes
  /\ \E kind \in ImportKinds :
       /\ kind # "doc" => Len(jobs) < MaxJobs
       /\ createAndActivateNote(Placeholder(kind))
       /\ jobs' = IF kind = "doc" THEN jobs
                  ELSE Append(jobs, Job(kind, activeNote', 0, <<>>))
  /\ NotesViewFollows
  /\ UNCHANGED <<noteToDelete, shouldAutoPlay, deleted, recordings>>
  /\ UNCHANGED besideApp

\* part_001:238-245  handleFileImport for a text file: the reader is started
ImportText ==
  /\ NoDialog
  /\ currentView = "Home"
  /\ Len(jobs) < MaxJobs
  /\ jobs' = Append(jobs, Job("text", NullNote, 0, <<>>))
  /\ UNCHANGED <<notes, activeNote, currentView, noteToDelete, shouldAutoPlay,
                 lastId, deleted, recordings, currentNote, transcription, saveTimer>>
  /\ UNCHANGED besideApp

\* part_001:240-244  reader.onload creates the note, reader.onerror only
\* shows a message
TextLoaded ==
  \E k \in 1..Len(jobs) : \E loaded \in BOOLEAN :
    /\ jobs[k].kind = "text"
    /\ loaded => lastId < MaxNotes
    /\ jobs' = Without(jobs, k)
    /\ IF loaded
       THEN /\ createAndActivateNote(<<"x">>)
            /\ NotesViewFollows
       ELSE UNCHANGED <<notes, activeNote, currentView, lastId, currentNote,
                        transcription, saveTimer>>
    /\ UNCHANGED <<noteToDelete, shouldAutoPlay, deleted, recordings>>
    /\ UNCHANGED besideApp

\* part_001:136-139  handleStartScan
StartScan ==
  /\ NoDialog
  /\ currentView = "Home"
  /\ shouldAutoPlay' = TRUE
  /\ currentView' = "Scanner"
  /\ UNCHANGED <<notes, activeNote, noteToDelete, lastId, jobs, deleted, recordings,
                 currentNote, transcription, saveTimer>>
  /\ UNCHANGED besideApp

\* part_001:415  onClose of the scanner
CloseScanner ==
  /\ NoDialog
  /\ currentView = "Scanner"
  /\ shouldAutoPlay' = FALSE
  /\ currentView' = "Home"
  /\ UNCHANGED <<notes, activeNote, noteToDelete, lastId, jobs, deleted, recordings,
                 currentNote, transcription, saveTimer>>
  /\ UNCHANGED besideApp

\* part_001:141-146  handleCapture up to its await
Capture ==
  /\ NoDialog
  /\ currentView = "Scanner"
  /\ lastId < MaxNotes
  /\ Len(jobs) < MaxJobs
  /\ createAndActivateNote(Placeholder("scan"))
  /\ jobs' = Append(jobs, Job("scan", activeNote', 0, <<>>))
  /\ NotesViewFollows
  /\ UNCHANGED <<noteToDelete, shouldAutoPlay, deleted, recordings>>
  /\ UNCHANGED besideApp

\* part_001:146-162, 249-265, 271-293, 298-310, 323-335  the work of an
\* import or a scan completes with a text or fails: the transcript of the
\* note with the id of the placeholder is written, in the list and in the
\* active note
JobSettle ==
  \E k \in 1..Len(jobs) : \E t \in JobTexts \cup {JobError} :
    LET tempNote == jobs[k].note
    IN  /\ jobs[k].kind \in PlaceholderKinds
        /\ jobs' = Without(jobs, k)
        /\ notes' = ReplaceTranscript(notes, tempNote.id, t)
        /\ activeNote' = IF activeNote # NullNote /\
                            activeNote.id = tempNote.id
                         THEN [activeNote EXCEPT !.transcript = t]
                         ELSE activeNote
        /\ UNCHANGED currentView
        /\ NotesViewFollows
        /\ UNCHANGED <<noteToDelete, shouldAutoPlay, lastId, deleted, recordings>>
        /\ UNCHANGED besideApp

\* part_001:165-168  handleSelectNote, from the files or from the home view
SelectNote ==
  /\ NoDialog
  /\ currentView \in {"MyFiles", "Home"}
  /\ \E k \in 1..Len(notes) :
       /\ currentView = "Home" => k = 1
       /\ activeNote' = notes[k]
  /\ currentView' = "Notes"
  /\ NotesViewFollows
  /\ UNCHANGED <<notes, noteToDelete, shouldAutoPlay, lastId, jobs, deleted, recordings>>
  /\ UNCHANGED besideApp

\* part_001:426-432, 127-130  handleNavChange to the home or the files view,
\* and handleBackToMyFiles
NavChange ==
  /\ NoDialog
  /\ currentView # "Scanner"
  /\ \E view \in {"Home", "MyFiles"} :
       /\ view # currentView
       /\ shouldAutoPlay' = FALSE
       /\ activeNote' = IF currentView \in {"Notes", "Chat"} /\
                           view = "MyFiles"
                        THEN NullNote ELSE activeNote
       /\ currentView' = view
  /\ NotesViewFollows
  /\ UNCHANGED <<notes, noteToDelete, lastId, jobs, deleted, recordings>>
  /\ UNCHANGED besideApp

\* part_001:226-229  navigateToChat(currentNote)
StartChat ==
  /\ NoDialog
  /\ currentView = "Notes"
  /\ currentNote # NullNote
  /\ activeNote' = currentNote
  /\ currentView' = "Chat"
  /\ NotesViewFollows
  /\ UNCHANGED <<notes, noteToDelete, shouldAutoPlay, lastId, jobs, deleted, recordings>>
  /\ UNCHANGED besideApp

\* part_001:132-134  handleBackToNotes
BackToNotes ==
  /\ NoDialog
  /\ currentView = "Chat"
  /\ currentView' = "Notes"
  /\ UNCHANGED activeNote
  /\ NotesViewFollows
  /\ UNCHANGED <<notes, noteToDelete, shouldAutoPlay, lastId, jobs, deleted, recordings>>
  /\ UNCHANGED besideApp

\* part_001:170-175  requestDeleteNote, from the files view
RequestDelete ==
  /\ NoDialog
  /\ currentView = "MyFiles"
  /\ \E k \in 1..Len(notes) : noteToDelete' = notes[k]
  /\ UNCHANGED <<notes, activeNote, currentView, shouldAutoPlay, lastId, jobs,
                 deleted, recordings, currentNote, transcription, saveTimer>>
  /\ UNCHANGED besideApp

\* part_001:177-186  confirmDeleteNote
ConfirmDelete ==
  /\ ~NoDialog
  /\ notes' = SelectSeq(notes, LAMBDA n : n.id # noteToDelete.id)
  /\ IF activeNote # NullNote /\ activeNote.id = noteToDelete.id
     THEN /\ activeNote' = NullNote
          /\ currentView' = "MyFiles"
     ELSE UNCHANGED <<activeNote, currentView>>
  /\ noteToDelete' = NullNote
  /\ deleted' = deleted \cup {noteToDelete.id}
  /\ NotesViewFollows
  /\ UNCHANGED <<shouldAutoPlay, lastId, jobs, recordings>>
  /\ UNCHANGED besideApp

\* part_001:188-190  cancelDeleteNote
CancelDelete ==
  /\ ~NoDialog
  /\ noteToDelete' = NullNote
  /\ UNCHANGED <<notes, activeNote, currentView, shouldAutoPlay, lastId, jobs,
                 deleted, recordings, currentNote, transcription, saveTimer>>
  /\ UNCHANGED besideApp

\* NotesView.tsx:734, 236-245  the user edits the transcript: the autosave
\* effect arms its timer when the text differs from the note
EditTranscript ==
  /\ NoDialog
  /\ currentView = "Notes"
  /\ currentNote # NullNote
  /\ \E v \in EditTexts \cup {currentNote.transcript} :
       /\ v # transcription
       /\ transcription' = v
       /\ saveTimer' = IF v # currentNote.transcript
                       THEN [currentNote EXCEPT !.transcript = v]
                       ELSE NullNote
  /\ UNCHANGED <<notes, activeNote, currentView, noteToDelete, shouldAutoPlay,
                 lastId, jobs, deleted, recordings, currentNote>>
  /\ UNCHANGED besideApp

\* NotesView.tsx:238-242  the autosave timer fires
AutosaveFire ==
  /\ saveTimer # NullNote
  /\ saveNote(saveTimer, activeNote.id)
  /\ currentNote' = saveTimer
  /\ UNCHANGED transcription
  /\ saveTimer' = NullNote
  /\ UNCHANGED <<currentView, noteToDelete, shouldAutoPlay, lastId, jobs,
                 deleted, recordings>>
  /\ UNCHANGED besideApp

\* NotesView.tsx:573-576  handleSummarize up to its await: the closure holds
\* currentNote and the saveNote of this render
Summarize ==
  /\ NoDialog
  /\ currentView = "Notes"
  /\ currentNote # NullNote
  /\ Len(currentNote.transcript) # 0
  /\ Len(jobs) < MaxJobs
  /\ jobs' = Append(jobs, Job("summarize", currentNote, activeNote.id,
                              transcription))
  /\ UNCHANGED <<notes, activeNote, currentView, noteToDelete, shouldAutoPlay,
                 lastId, deleted, recordings, currentNote, transcription, saveTimer>>
  /\ UNCHANGED besideApp

\* NotesView.tsx:576-578  summarizeTranscript returns: the note of the
\* closure is saved with the summary
SummarizeReturn ==
  \E k \in 1..Len(jobs) :
    LET updatedNote == [jobs[k].note EXCEPT !.summary = <<"s">>]
    IN  /\ jobs[k].kind = "summarize"
        /\ jobs' = Without(jobs, k)
        /\ UNCHANGED currentView
        /\ saveNote(updatedNote, jobs[k].activeId)
        /\ NotesViewFollows
        /\ UNCHANGED <<noteToDelete, shouldAutoPlay, lastId, deleted, recordings>>
        /\ UNCHANGED besideApp

\* NotesView.tsx:488-527  handleStopRecording up to the transcription of the
\* recording: the closure holds currentNote, transcription and the saveNote
\* of this render
StopRecording ==
  /\ NoDialog
  /\ currentView = "Notes"
  /\ currentNote # NullNote
  /\ Len(jobs) < MaxJobs
  /\ recordings < MaxRecordings
  /\ recordings' = recordings + 1
  /\ jobs' = Append(jobs, Job("record", currentNote, activeNote.id,
                              transcription))
  /\ UNCHANGED <<notes, activeNote, currentView, noteToDelete, shouldAutoPlay,
                 lastId, deleted, currentNote, transcription, saveTimer>>
  /\ UNCHANGED besideApp

\* NotesView.tsx:529-533  the transcript after a recording
updatedTranscript(t, newTranscription) ==
  IF Len(t) # 0 THEN t \o <<" ">> \o newTranscription ELSE newTranscription

\* NotesView.tsx:524-540  transcribeAudioFile returns: unless it returned
\* one of its error messages, the note of the closure is saved with the
\* longer transcript
RecordingTranscribed ==
  \E k \in 1..Len(jobs) : \E failed \in BOOLEAN :
    LET updatedNote ==
          [jobs[k].note EXCEPT
             !.transcript = updatedTranscript(jobs[k].transcription, <<"r">>)]
    IN  /\ jobs[k].kind = "record"
        /\ jobs' = Without(jobs, k)
        /\ UNCHANGED currentView
        /\ IF failed
           THEN UNCHANGED <<notes, activeNote, currentNote, transcription,
                            saveTimer>>
           ELSE /\ saveNote(updatedNote, jobs[k].activeId)
                /\ NotesViewFollows
        /\ UNCHANGED <<noteToDelete, shouldAutoPlay, lastId, deleted, recordings>>
        /\ UNCHANGED besideApp

NextApp ==
  StartNewNote \/ ImportFile \/ ImportText \/ TextLoaded \/ StartScan \/
  CloseScanner \/ Capture \/ JobSettle \/ SelectNote \/ NavChange \/
  StartChat \/ BackToNotes \/ RequestDelete \/ ConfirmDelete \/
  CancelDelete \/ EditTranscript \/ AutosaveFire \/ Summarize \/
  SummarizeReturn \/ StopRecording \/ RecordingTranscribed

SpecApp == Init /\ [][NextApp]_vars

\* App with a NotesView in which nothing is summarized or recorded
NextImport ==
  StartNewNote \/ ImportFile \/ ImportText \/ TextLoaded \/ StartScan \/
  CloseScanner \/ Capture \/ JobSettle \/ SelectNote \/ NavChange \/
  StartChat \/ BackToNotes \/ RequestDelete \/ ConfirmDelete \/
  CancelDelete \/ EditTranscript \/ AutosaveFire

SpecImport == Init /\ [][NextImport]_vars

\* ------------------------------------------------------------------ ScannerView

\* how many times the scanner is opened
MaxScans == 3

\* ScannerView.tsx:35-37  the cleanup of the effect, for the stream its
\* closure holds
StopTracks(live, held) ==
  IF held # 0 THEN [live EXCEPT ![held] = FALSE] ELSE live

\* ScannerView.tsx:9-14, 32-33  App shows the scanner: a new instance with
\* its initial state; its effect calls startCamera, which awaits
\* getUserMedia, and registers the cleanup made in this first render
ScannerMount ==
  /\ scMounted = 0
  /\ scInstances < MaxScans
  /\ scInstances' = scInstances + 1
  /\ scMounted' = scInstances + 1
  /\ stream' = 0
  /\ cleanupStream' = stream'
  /\ scError' = FALSE
  /\ isCapturing' = FALSE
  /\ cameraRequests' = cameraRequests \cup {scInstances + 1}
  /\ UNCHANGED tracksLive
  /\ UNCHANGED besideScanner

\* ScannerView.tsx:18-25  getUserMedia resolves with a stream whose tracks
\* are live; setStream has an effect on the instance only while it is
\* mounted, and the effect, whose dependencies are [startCamera], does not
\* run again
CameraGranted ==
  \E i \in cameraRequests :
    /\ cameraRequests' = cameraRequests \ {i}
    /\ tracksLive' = Append(tracksLive, TRUE)
    /\ stream' = IF i = scMounted THEN Len(tracksLive) + 1 ELSE stream
    /\ UNCHANGED <<scInstances, scMounted, cleanupStream, scError,
                   isCapturing>>
    /\ UNCHANGED besideScanner

\* ScannerView.tsx:26-29  getUserMedia rejects
CameraDenied ==
  \E i \in cameraRequests :
    /\ cameraRequests' = cameraRequests \ {i}
    /\ scError' = IF i = scMounted THEN TRUE ELSE scError
    /\ UNCHANGED <<scInstances, scMounted, stream, cleanupStream, isCapturing,
                   tracksLive>>
    /\ UNCHANGED besideScanner

\* ScannerView.tsx:42-58, part_001:141-142  handleCapture: the picture is
\* handed to App, which leaves the scanner, so that the cleanup runs.  The
\* video element exists unless the error is shown.
ScannerCapture ==
  /\ scMounted # 0
  /\ ~scError
  /\ ~isCapturing
  /\ isCapturing' = TRUE
  /\ scMounted' = 0
  /\ tracksLive' = StopTracks(tracksLive, cleanupStream)
  /\ UNCHANGED <<scInstances, stream, cleanupStream, scError, cameraRequests>>
  /\ UNCHANGED besideScanner

\* ScannerView.tsx:63, part_001:415  the close button: App leaves the
\* scanner, so that the cleanup runs
ScannerClose ==
  /\ scMounted # 0
  /\ scMounted' = 0
  /\ tracksLive' = StopTracks(tracksLive, cleanupStream)
  /\ UNCHANGED <<scInstances, stream, cleanupStream, scError, isCapturing,
                 cameraRequests>>
  /\ UNCHANGED besideScanner

NextScanner ==
  ScannerMount \/ CameraGranted \/ CameraDenied \/ ScannerCapture \/
  ScannerClose

SpecScanner == Init /\ [][NextScanner]_vars

\* ------------------------------------------------------------------ NotesView auto-play

\* how many times NotesView is opened
MaxOpens == 3

\* NotesView.tsx:208  the transcript is one the auto-play effect accepts
Playable(t) ==
  /\ Len(t) # 0
  /\ length(trim(t)) > 0
  /\ ~startsWith(t, <<"[">>)

\* what scanImageForText gives, and the message of the catch (part_001:158)
ScanTexts == {<<"t">>, <<>>, <<" ">>, JobError}

NoAutoDeps ==
  [ran |-> FALSE, should |-> FALSE, has |-> FALSE, transcript |-> <<>>]
NoNoteDeps == [ran |-> FALSE, transcript |-> <<>>]
NoTimer == [armed |-> FALSE, text |-> <<>>]

\* NotesView.tsx:224, 233  the dependencies of the two effects in the state
\* as it is
AutoDepsNow ==
  [ran |-> TRUE, should |-> apShouldAutoPlay, has |-> hasAutoPlayed,
   transcript |-> apCurrentNote]
NoteDepsNow == [ran |-> TRUE, transcript |-> apNote]

\* a render is due whose effects will run
CommitDue ==
  /\ apView = "Notes"
  /\ apAutoDeps # AutoDepsNow \/ apNoteDeps # NoteDepsNow

\* part_001:417-418, NotesView.tsx:152-163  App shows NotesView with a note:
\* a new instance, currentNote starting as the note prop
OpenNotesView(t) ==
  /\ apOpened < MaxOpens
  /\ apOpened' = apOpened + 1
  /\ apView' = "Notes"
  /\ apNote' = t
  /\ apCurrentNote' = t
  /\ hasAutoPlayed' = FALSE
  /\ apAutoDeps' = NoAutoDeps
  /\ apNoteDeps' = NoNoteDeps
  /\ autoTimer' = NoTimer

\* NotesView.tsx:223  NotesView is unmounted: the cleanup of the auto-play
\* effect clears the timer
CloseNotesView ==
  /\ apNote' = <<>>
  /\ apCurrentNote' = <<>>
  /\ hasAutoPlayed' = FALSE
  /\ apAutoDeps' = NoAutoDeps
  /\ apNoteDeps' = NoNoteDeps
  /\ autoTimer' = NoTimer
  /\ apScan' = IF apScan = "pending" THEN "away" ELSE
               IF apScan = "done" THEN "none" ELSE apScan

\* part_001:136-139  handleStartScan
ApStartScan ==
  /\ apView = "Home"
  /\ apShouldAutoPlay' = TRUE
  /\ apView' = "Scanner"
  /\ UNCHANGED <<apScan, apNote, apCurrentNote, hasAutoPlayed, apAutoDeps,
                 apNoteDeps, autoTimer, autoPlays, apOpened>>
  /\ UNCHANGED besideAuto

\* part_001:141-146  handleCapture up to its await: NotesView is shown with
\* the placeholder note
ApCapture ==
  /\ apView = "Scanner"
  /\ apScan = "none"
  /\ OpenNotesView(Placeholder("scan"))
  /\ apScan' = "pending"
  /\ UNCHANGED <<apShouldAutoPlay, autoPlays>>
  /\ UNCHANGED besideAuto

\* part_001:146-162  the scan completes or fails: the transcript of the
\* active note is replaced if the active note is still the placeholder note
ApScanDone ==
  /\ apScan \in {"pending", "away"}
  /\ \E t \in ScanTexts :
       apNote' = IF apScan = "pending" THEN t ELSE apNote
  /\ apScan' = IF apScan = "pending" THEN "done" ELSE "none"
  /\ UNCHANGED <<apView, apShouldAutoPlay, apCurrentNote, hasAutoPlayed,
                 apAutoDeps, apNoteDeps, autoTimer, autoPlays, apOpened>>
  /\ UNCHANGED besideAuto

\* part_001:165-168  handleSelectNote: a note with a text is opened
ApSelectNote ==
  /\ apView \in {"Home", "MyFiles"}
  /\ OpenNotesView(<<"n">>)
  /\ UNCHANGED <<apShouldAutoPlay, apScan, autoPlays>>
  /\ UNCHANGED besideAuto

\* part_001:127-130  handleBackToMyFiles, which leaves shouldAutoPlay as it is
ApBack ==
  /\ apView = "Notes"
  /\ apView' = "MyFiles"
  /\ CloseNotesView
  /\ UNCHANGED <<apShouldAutoPlay, autoPlays, apOpened>>
  /\ UNCHANGED besideAuto

\* part_001:415, 426-432  the scanner is closed, or handleNavChange to the
\* home view: shouldAutoPlay is cleared
ApNavHome ==
  /\ apView # "Home"
  /\ apView' = "Home"
  /\ apShouldAutoPlay' = FALSE
  /\ IF apView = "Notes"
     THEN CloseNotesView
     ELSE UNCHANGED <<apScan, apNote, apCurrentNote, hasAutoPlayed,
                      apAutoDeps, apNoteDeps, autoTimer>>
  /\ UNCHANGED <<autoPlays, apOpened>>
  /\ UNCHANGED besideAuto

\* NotesView.tsx:206-233  a render of NotesView is committed and its effects
\* run, each if its dependencies changed.  The auto-play effect first runs
\* the cleanup of its last run, which clears the timer, and then, if the
\* condition of line 208 holds, sets hasAutoPlayed and arms the timer.  The
\* note effect copies the note into currentNote and resets hasAutoPlayed.
\* The updates of the effects are applied together, the last one to
\* hasAutoPlayed winning.
ApCommit ==
  /\ CommitDue
  /\ LET runAuto == apAutoDeps # AutoDepsNow
         runNote == apNoteDeps # NoteDepsNow
         arm == /\ runAuto
                /\ apShouldAutoPlay
                /\ ~hasAutoPlayed
                /\ Playable(apCurrentNote)
     IN  /\ autoTimer' = IF arm THEN [armed |-> TRUE, text |-> apCurrentNote]
                         ELSE IF runAuto THEN NoTimer ELSE autoTimer
         /\ hasAutoPlayed' = IF runNote THEN FALSE
                             ELSE IF arm THEN TRUE ELSE hasAutoPlayed
         /\ apCurrentNote' = IF runNote THEN apNote ELSE apCurrentNote
         /\ apAutoDeps' = IF runAuto THEN AutoDepsNow ELSE apAutoDeps
         /\ apNoteDeps' = IF runNote THEN NoteDepsNow ELSE apNoteDeps
  /\ UNCHANGED <<apView, apShouldAutoPlay, apScan, apNote, autoPlays,
                 apOpened>>
  /\ UNCHANGED besideAuto

\* NotesView.tsx:212-222  the timer fires, 800 ms after it was armed and so
\* after the renders that were due: handlePlayPause is called with the
\* transcript of the closure
ApTimerFire ==
  /\ autoTimer.armed
  /\ ~CommitDue
  /\ autoPlays' = Append(autoPlays, [opened |-> apOpened,
                                     text |-> autoTimer.text])
  /\ autoTimer' = NoTimer
  /\ UNCHANGED <<apView, apShouldAutoPlay, apScan, apNote, apCurrentNote,
                 hasAutoPlayed, apAutoDeps, apNoteDeps, apOpened>>
  /\ UNCHANGED besideAuto

NextAuto ==
  ApStartScan \/ ApCapture \/ ApScanDone \/ ApSelectNote \/ ApBack \/
  ApNavHome \/ ApCommit \/ ApTimerFire

SpecAuto == Init /\ [][NextAuto]_vars

\* ------------------------------------------------------------------ NotesView playback

\* how many calls of handlePlayPause generate audio, and how many chunks
\* the longest transcript is estimated to have
MaxPlays == 3
MaxTextChunks == 2

\* NotesView.tsx:347  Math.max(30000, 10000 + estimatedChunks * 10000)
MinViewTimeoutMs == 30000
ViewTimeoutBaseMs == 10000
ViewTimeoutPerChunkMs == 10000

ViewTimeoutMs(estimatedChunks) ==
  IF ViewTimeoutBaseMs + estimatedChunks * ViewTimeoutPerChunkMs >
       MinViewTimeoutMs
  THEN ViewTimeoutBaseMs + estimatedChunks * ViewTimeoutPerChunkMs
  ELSE MinViewTimeoutMs

\* part_000:28-60, 221-225  the longest generateSpeechFromText can take: its
\* requests are made one after the other and each is aborted after timeoutMs
LongestGeneration(n) == n * timeoutMs

Play(arg, n) == [arg |-> arg, chunks |-> n, pc |-> "unlock"]

\* the calls of generateSpeechFromText that have not settled
GenerationsInFlight ==
  {k \in 1..Len(plays) : plays[k].pc \in {"racing", "abandoned"}}

\* NotesView.tsx:264-339  handlePlayPause up to its first await, for an
\* argument that is given: nothing is paused or reused, isGeneratingSpeech
\* is set and the silent sound is played
handlePlayPause(arg, n) ==
  /\ isGeneratingSpeech' = TRUE
  /\ plays' = Append(plays, Play(arg, n))

\* NotesView.tsx:713-715  the Play button, disabled while isGeneratingSpeech:
\* handlePlayPause is the onClick handler, so textToPlay is the click event,
\* whose length is undefined
PressPlay ==
  /\ ~isGeneratingSpeech
  /\ Len(plays) < MaxPlays
  /\ handlePlayPause("event", 0)
  /\ UNCHANGED recordTimer
  /\ UNCHANGED besidePlay

\* NotesView.tsx:524-548, 226-233  the transcription of a recording returns:
\* the note is saved, so that the note prop changes and the cleanup of the
\* note effect, cleanupAudio, runs, and the timer of 500 ms is armed
RecordingSaved ==
  /\ recordTimer = 0
  /\ Len(plays) < MaxPlays
  /\ \E n \in 1..MaxTextChunks : recordTimer' = n
  /\ isGeneratingSpeech' = FALSE
  /\ UNCHANGED plays
  /\ UNCHANGED besidePlay

\* NotesView.tsx:546-548  the timer fires: handlePlayPause(updatedTranscript)
RecordTimerFire ==
  /\ recordTimer # 0
  /\ handlePlayPause("text", recordTimer)
  /\ recordTimer' = 0
  /\ UNCHANGED besidePlay

\* NotesView.tsx:339-355  the silent sound has played or was refused:
\* generateSpeechFromText is called and raced against the timeout of the
\* view.  For the click event it makes no request and returns an empty
\* Blob at once, which the handler takes as a failure (357-359, 383-391).
UnlockSettles ==
  \E k \in 1..Len(plays) :
    /\ plays[k].pc = "unlock"
    /\ IF plays[k].chunks = 0
       THEN /\ plays' = [plays EXCEPT ![k].pc = "done"]
            /\ isGeneratingSpeech' = FALSE
       ELSE /\ plays' = [plays EXCEPT ![k].pc = "racing"]
            /\ UNCHANGED isGeneratingSpeech
    /\ UNCHANGED recordTimer
    /\ UNCHANGED besidePlay

\* NotesView.tsx:351-355, 383-391  the timeout of the view fires before
\* generateSpeechFromText has settled: the handler fails and its finally
\* clears isGeneratingSpeech, while the call goes on
ViewTimeout ==
  \E k \in 1..Len(plays) :
    /\ plays[k].pc = "racing"
    /\ ViewTimeoutMs(plays[k].chunks) < LongestGeneration(plays[k].chunks)
    /\ plays' = [plays EXCEPT ![k].pc = "abandoned"]
    /\ isGeneratingSpeech' = FALSE
    /\ UNCHANGED recordTimer
    /\ UNCHANGED besidePlay

\* NotesView.tsx:355-391  generateSpeechFromText resolves or rejects: a
\* handler still waiting for it plays the audio or fails, and its finally
\* clears isGeneratingSpeech
GenerationSettles ==
  \E k \in GenerationsInFlight :
    /\ plays' = [plays EXCEPT ![k].pc = "done"]
    /\ isGeneratingSpeech' = IF plays[k].pc = "racing" THEN FALSE
                             ELSE isGeneratingSpeech
    /\ UNCHANGED recordTimer
    /\ UNCHANGED besidePlay

\* NotesView.tsx:184-204, 226-233, part_001:211-224  a save of the note (the
\* autosave, a summary) changes the note prop: the cleanup of the note
\* effect, cleanupAudio, runs
NoteSaved ==
  /\ isGeneratingSpeech' = FALSE
  /\ UNCHANGED <<plays, recordTimer>>
  /\ UNCHANGED besidePlay

NextPlay ==
  PressPlay \/ RecordingSaved \/ RecordTimerFire \/ UnlockSettles \/
  ViewTimeout \/ GenerationSettles \/ NoteSaved

SpecPlay == Init /\ [][NextPlay]_vars

\* ------------------------------------------------------------------ properties

NonWs(s) == SelectSeq(s, LAMBDA ch : ch \notin Whitespace)

RECURSIVE Flat(_)
Flat(ss) == IF ss = <<>> THEN <<>> ELSE Head(ss) \o Flat(Tail(ss))

NonBlank(cs) == SelectSeq(cs, LAMBDA c : length(trim(c)) > 0)

IsPrefix(a, b) == Len(a) <= Len(b) /\ a = SubSeq(b, 1, Len(a))

Failures == {"timeout", "network", "http", "body"}

\* the error a request that ended as `o` says fails with
FailureOf(o) ==
  IF o.kind = "timeout" THEN Err("Error", TimeoutMsg)
  ELSE IF o.kind = "network" THEN NetworkError
  ELSE IF o.kind = "body" THEN BodyError
  ELSE NotOkError(o.status, o.body)

\* C1: no chunk produced by the splitter, and so no `input` sent to the speech
\* endpoint, is longer than MAX_CHARS characters.
C1_ChunkWithinCeiling ==
  /\ \A i \in 1..Len(chunks) : Len(chunks[i]) <= MAX_CHARS
  /\ \A i \in 1..Len(requests) : Len(requests[i]) <= MAX_CHARS

\* C2: the non-whitespace characters of the chunks, in order, are those of the
\* input: while the loop runs, chunks and remainder together hold them all, and
\* when it has ended the chunks alone do.
C2_NonWhitespaceKept ==
  /\ pc = "split" => NonWs(Flat(chunks) \o remainingText) = NonWs(text)
  /\ pc = "dispatch" => NonWs(Flat(chunks)) = NonWs(text)

C2_Witness ==
  /\ pc = "dispatch"
  /\ Len(chunks) >= 3
  /\ Flat(chunks) # text

\* C3: when the request of a chunk fails the call rejects with that failure,
\* resolves with no audio, and no request for a later chunk is sent.
C3_FailureAborts ==
  /\ outcome.kind \in Failures =>
       /\ pc = "rejected"
       /\ error = FailureOf(outcome)
       /\ result = NoBlob
       /\ inFlight = 0
       /\ Len(requests) = Len(responses) + 1
  /\ pc = "rejected" => outcome.kind \in Failures

C3_Witness ==
  /\ pc = "rejected"
  /\ Len(responses) >= 1
  /\ Len(requests) < Len(NonBlank(chunks))

\* C4: requests go out in chunk order, one at a time: at most one is in flight,
\* and request k+1 is sent only after the response to request k was read.
C4_Sequential ==
  /\ inFlight \in {0, 1}
  /\ Len(requests) = Len(responses) + inFlight
     \/ (pc = "rejected" /\ Len(requests) = Len(responses) + 1)
  /\ IsPrefix(requests, NonBlank(chunks))

C4_Witness ==
  /\ inFlight = 1
  /\ Len(requests) = 3
  /\ Len(responses) = 2
  /\ requests[1] # requests[3]

\* C5 as stated: a text shorter than the ceiling gives exactly one chunk, and an
\* empty result only when the text is empty.
C5_EmptyOnlyWhenEmpty ==
  (pc = "done" /\ Len(text) < MAX_CHARS) =>
    /\ text # <<>> => Len(chunks) = 1
    /\ result.bytes = <<>> => text = <<>>

\* C5 as amended: a non-empty text shorter than the ceiling gives exactly one
\* chunk, the text itself (the empty text gives none); the result is empty only
\* when the text is empty or all whitespace, or the one response body was empty.
C5_OneChunk ==
  (pc = "done" /\ Len(text) < MAX_CHARS) =>
    /\ text = <<>> => chunks = <<>>
    /\ text # <<>> => chunks = <<text>>
    /\ result.bytes = <<>> =>
         \/ text = <<>>
         \/ trim(text) = <<>> /\ requests = <<>>
         \/ responses = << <<>> >>

C5_Witness ==
  /\ pc = "done"
  /\ Len(text) < MAX_CHARS
  /\ text # <<>>
  /\ trim(text) = <<>>
  /\ result.bytes = <<>>

\* C6: a call with the empty text resolves at once with an empty Blob: it never
\* enters the splitting or dispatch loop and no request is made.
C6_EmptyText ==
  (text = <<>> /\ pc # "idle") =>
    /\ pc = "done"
    /\ result.bytes = <<>>
    /\ requests = <<>>
    /\ fetchCalls = 0

C6_Witness == text = <<>> /\ pc = "done"

\* C7: the audio of a resolved call is the response bodies concatenated in the
\* order the requests were sent, and as long as all of them together.
C7_Concatenated ==
  (pc = "done" /\ text # <<>>) =>
    /\ result.bytes = Flat(responses)
    /\ Len(result.bytes) = TotalLength(responses)
    /\ Len(responses) = Len(requests)

C7_Witness ==
  /\ pc = "done"
  /\ Len(responses) = 3
  /\ responses[1] # <<>>
  /\ responses[2] # <<>>
  /\ responses[1] # responses[2]

\* C8: a request still pending timeoutMs after it was sent has its timer armed,
\* and when the timer fires the request is aborted and the call fails with the
\* timeout message, which no other failure carries.
C8_Timeout ==
  /\ (pc = "await" /\ clock >= timeoutMs) => timerSet
  /\ outcome.kind = "timeout" =>
       /\ pc = "rejected"
       /\ error.message = TimeoutMsg
       /\ clock >= timeoutMs
       /\ inFlight = 0
  /\ (pc = "rejected" /\ outcome.kind # "timeout") => error.message # TimeoutMsg

C8_Witness == outcome.kind = "timeout" /\ pc = "rejected"

\* C9: every openaiRequest invocation makes exactly one fetch, every chunk gets
\* at most one invocation, and a failed request ends the call: nothing is sent
\* again.
C9_NoRetry ==
  /\ fetchCalls = requestCalls
  /\ requestCalls = Len(requests)
  /\ Len(requests) <= Len(NonBlank(chunks))
  /\ outcome.kind \in Failures => pc = "rejected" /\ inFlight = 0

C9_Witness ==
  /\ outcome.kind \in {"timeout", "network", "http"}
  /\ pc = "rejected"
  /\ fetchCalls = 2

ServiceMessageOf(body) ==
  IF /\ body.parse = "ok"
     /\ body.value.t = "obj"
     /\ body.value.error.t = "obj"
     /\ body.value.error.message.t = "str"
     /\ body.value.error.message.v # ""
  THEN <<body.value.error.message.v>>
  ELSE <<>>

\* C10: a non-success status fails with the message the service reported, or,
\* when the body carries none, with a message that contains the status; a
\* success status does not fail.
C10_StatusError ==
  /\ outcome.kind = "http" =>
       /\ pc = "rejected"
       /\ IF ServiceMessageOf(outcome.body) # <<>>
          THEN error.message = ServiceMessageOf(outcome.body)
          ELSE \E k \in 1..Len(error.message) : error.message[k] = ToString(outcome.status)
  /\ outcome.kind = "ok" => pc # "rejected"

\* C11: none of the five wrappers rejects: a call whose request failed has
\* returned the placeholder string of its catch block.
C11_NoFailurePropagates ==
  \A i \in 1..MaxCalls :
    /\ calls[i].pc # "threw"
    /\ calls[i].failed =>
         /\ calls[i].pc = "returned"
         /\ calls[i].result = ErrorPlaceholder(calls[i].fn)
         /\ calls[i].result # ""

C11_Witness ==
  /\ calls[1].failed
  /\ calls[2].failed
  /\ calls[1].fn = "transcribeAudioFile"
  /\ calls[2].fn = "sendMessageToChat"

\* C12: transcribeAudioFile called with empty data or an empty MIME type, and
\* scanImageForText called with empty data, return their placeholder and send
\* no request.
C12_MissingDataChecked ==
  \A i \in 1..MaxCalls :
    LET c == calls[i]
    IN (\/ c.fn = "transcribeAudioFile" /\ (c.arg.data = "" \/ c.arg.mime = "")
        \/ c.fn = "scanImageForText" /\ c.arg.data = "") =>
         /\ c.pc = "returned"
         /\ c.result = IF c.fn = "transcribeAudioFile"
                       THEN "Invalid file data provided."
                       ELSE "Invalid image data provided."
         /\ sent[i] = <<>>

C12_Witness ==
  /\ calls[1].fn = "transcribeAudioFile"
  /\ calls[1].arg.data # ""
  /\ calls[1].arg.mime = ""
  /\ calls[1].pc = "returned"
  /\ calls[2].fn = "scanImageForText"
  /\ calls[2].arg.data = ""
  /\ calls[2].pc = "returned"

\* C13: every chunk, and so every `input` sent to the speech endpoint, is
\* shorter than the service's limit of 4096 characters.
C13_UnderServiceLimit ==
  /\ \A i \in 1..Len(chunks) : Len(chunks[i]) < ServiceLimit
  /\ \A i \in 1..Len(requests) : Len(requests[i]) < ServiceLimit

C13_Witness ==
  \E i \in 1..Len(requests) : Len(requests[i]) > MAX_CHARS

\* pat occurs in s at index i (0-based)
Occurs(s, pat, i) ==
  /\ i >= 0
  /\ i + Len(pat) <= Len(s)
  /\ \A k \in 1..Len(pat) : s[i + k] = pat[k]

\* r has one of the six boundary tokens at an index between a tenth of the
\* ceiling and the ceiling
BoundaryInRange(r) ==
  \E sep \in Seps : \E p \in (MAX_CHARS \div 10)..MAX_CHARS : Occurs(r, sep, p)

\* chunk is r up to and including the first character of a boundary token
\* that lies between a tenth of the ceiling and the ceiling
EndsAtBoundary(r, chunk) ==
  LET p == Len(chunk) - 1
  IN /\ p * 10 >= MAX_CHARS
     /\ p <= MAX_CHARS
     /\ chunk = substring(r, 0, p + 1)
     /\ \E sep \in Seps : Occurs(r, sep, p)

\* C14: an iteration of the splitting loop on a remainder longer than the
\* ceiling that has a boundary token between index 400 and index 4000 ends the
\* chunk at such a boundary, not at the bare ceiling offset.
C14_BoundaryNeverCut ==
  [][(/\ pc = "split"
      /\ ~FitsInOneChunk(remainingText)
      /\ BoundaryInRange(remainingText))
     => EndsAtBoundary(remainingText, chunks'[Len(chunks')])]_vars

\* C15: a text of 9000 characters with '. ' every 100 characters or so is
\* split into exactly three chunks, none longer than the ceiling, and each but
\* the last ends with the period.
C15_Example ==
  pc = "dispatch" =>
    /\ Len(chunks) = 3
    /\ \A i \in 1..Len(chunks) : Len(chunks[i]) <= MAX_CHARS
    /\ \A i \in 1..(Len(chunks) - 1) : chunks[i][Len(chunks[i])] = "."

\* the unsigned numbers read little-endian at `offset` of a byte array
Uint16At(bytes, offset) == bytes[offset + 1] + 256 * bytes[offset + 2]

Uint32At(bytes, offset) ==
  Uint16At(bytes, offset) + 65536 * Uint16At(bytes, offset + 2)

\* C16: at sample rate 16000 the Blob returned for N samples has 44 + 2N
\* bytes; its header declares a data size of 2N at offset 40, a RIFF size of
\* 36 + 2N at offset 4, one channel, 16 bits per sample, block align 2 and
\* byte rate 32000.
C16_WavHeader ==
  (wavPc = "returned" /\ sampleRate = 16000) =>
    LET N == Len(audioData)
        bytes == wavBlob.bytes
    IN /\ Len(bytes) = 44 + 2 * N
       /\ Uint32At(bytes, 40) = N * 2
       /\ Uint32At(bytes, 4) = 36 + N * 2
       /\ Uint16At(bytes, 22) = 1
       /\ Uint16At(bytes, 34) = 16
       /\ Uint16At(bytes, 32) = 2
       /\ Uint32At(bytes, 28) = 32000

C16_Witness ==
  /\ wavPc = "returned"
  /\ sampleRate = 16000
  /\ Len(audioData) >= 2
  /\ Len(wavBlob.bytes) > 44

\* C17: a step never removes, reorders or rewrites a turn of chat.messages,
\* and a request sent by sendMessageToChat carries the system prompt, then the
\* whole history as it was, then the new user turn.
C17_AppendOnlyHistory ==
  [][/\ IsPrefix(chatMessages, chatMessages')
     /\ \A i \in 1..MaxCalls :
          (Len(sent'[i]) > Len(sent[i]) /\ calls'[i].fn = "sendMessageToChat") =>
            sent'[i][Len(sent'[i])].messages =
              <<SystemTurn>> \o chatMessages
                \o <<Turn("user", calls'[i].arg.data)>>]_vars

C17_Witness ==
  /\ Len(chatMessages) >= 3
  /\ \E i \in 1..MaxCalls :
       /\ calls[i].fn = "sendMessageToChat"
       /\ Len(sent[i]) > 0
       /\ Len(sent[i][1].messages) >= 4
       /\ chatMessages[2].role = "assistant"

\* the indices up to the ceiling at which a boundary token of r can begin
Marks(r) ==
  {p \in 0..Min(MAX_CHARS, Len(r) - 1) : r[p + 1] \in {sep[1] : sep \in Seps}}

\* the index at which the boundary search of an iteration ends: the greatest
\* of the indices `marks` at which a token of the first kind that occurs at
\* one of them at all occurs, or -1
RECURSIVE SelectedBoundary(_, _, _)
SelectedBoundary(r, kinds, marks) ==
  IF kinds = <<>> THEN -1
  ELSE LET at == {p \in marks : Occurs(r, Head(kinds), p)}
       IN IF at = {} THEN SelectedBoundary(r, Tail(kinds), marks)
          ELSE CHOOSE p \in at : \A q \in at : q <= p

\* the kinds of boundary, in the order of preference
KindsInOrder ==
  <<<<".", " ">>, <<"?", " ">>, <<"!", " ">>, <<"\n">>, <<",", " ">>, <<" ">>>>

\* C18: an iteration on a remainder longer than the ceiling emits the
\* remainder up to and including the boundary character when the selected
\* boundary is at index 400 or later, and the first 4000 characters otherwise.
C18_SplitOrHardCut ==
  [][(pc = "split" /\ ~FitsInOneChunk(remainingText)) =>
       LET b == SelectedBoundary(remainingText, KindsInOrder, Marks(remainingText))
           chunk == chunks'[Len(chunks')]
       IN /\ Len(chunks') = Len(chunks) + 1
          /\ IF b # -1 /\ b >= 400
             THEN /\ chunk = SubSeq(remainingText, 1, b + 1)
                  /\ chunk[Len(chunk)] = remainingText[b + 1]
             ELSE chunk = SubSeq(remainingText, 1, 4000)]_vars

\* both cases have happened in one run: a chunk that ends with its boundary
\* character, and a chunk of exactly the ceiling that does not
C18_Witness ==
  /\ pc = "dispatch"
  /\ \E i \in 1..Len(chunks) :
       /\ Len(chunks[i]) < MAX_CHARS
       /\ i < Len(chunks)
       /\ \E sep \in Seps : chunks[i][Len(chunks[i])] = sep[1]
  /\ \E i \in 1..Len(chunks) :
       /\ Len(chunks[i]) = MAX_CHARS
       /\ chunks[i][MAX_CHARS] = "a"

\* for each kind of boundary, in the order of preference, the indices among
\* `marks` at which r has a token of that kind
OccurrencesByKind(r, marks) ==
  [k \in 1..Len(KindsInOrder) |-> {p \in marks : Occurs(r, KindsInOrder[k], p)}]

\* f is -1 when no kind occurs, and otherwise the greatest occurrence of the
\* first kind that occurs
ChosenByPriority(at, f) ==
  IF \A k \in DOMAIN at : at[k] = {}
  THEN f = -1
  ELSE \E k \in DOMAIN at :
         /\ \A j \in 1..(k - 1) : at[j] = {}
         /\ f \in at[k]
         /\ \A q \in at[k] : q <= f

\* C19: the search of an iteration ends at -1 when no kind of boundary occurs
\* at or before the ceiling offset, and otherwise at an occurrence of the
\* first kind, in the order '. ', '? ', '! ', newline, ', ', space, that
\* occurs there at all: of that kind's occurrences the one nearest to the
\* ceiling offset.
C19_PriorityOrder ==
  [][(pc = "split" /\ ~FitsInOneChunk(remainingText)) =>
       ChosenByPriority(OccurrencesByKind(remainingText, Marks(remainingText)),
                        searched')]_vars

\* the first search of a run ended at a boundary although a boundary of
\* another kind lies nearer to the ceiling offset
C19_Witness ==
  /\ Len(chunks) = 1
  /\ searched # -1
  /\ Occurs(text, <<".", " ">>, searched)
  /\ \E p \in Marks(text) : \E sep \in Seps :
       /\ p > searched + 1
       /\ Occurs(text, sep, p)

\* C20: no request carries an input that is empty after trimming, and when
\* the call has resolved the inputs sent are the chunks that are not blank,
\* each once and in order.
C20_BlankSkipped ==
  /\ \A i \in 1..Len(requests) : length(trim(requests[i])) > 0
  /\ pc = "done" => requests = NonBlank(chunks)

C20_Witness ==
  /\ pc = "done"
  /\ Len(requests) >= 1
  /\ Len(requests) < Len(chunks)
  /\ \E i \in 1..Len(chunks) : length(chunks[i]) > 0 /\ length(trim(chunks[i])) = 0

\* the signed number read little-endian at `offset` of a byte array
Int16At(bytes, offset) ==
  LET u == Uint16At(bytes, offset)
  IN IF u >= 32768 THEN u - 65536 ELSE u

\* C21: the i-th sample is written as a little-endian signed 16-bit number at
\* offset 44 + 2i: -32768 for a sample of -1 or less, 32767 for a sample of 1
\* or more, 0 for 0, and in between within one unit of the sample times the
\* scale (32768 below zero, 32767 above); the number written is always within
\* [-32768, 32767].
C21_ClampAndScale ==
  \A i \in 0..(wavI - 1) :
    LET x == audioData[i + 1]
        v == Int16At(buffer, 44 + 2 * i)
    IN /\ v >= -32768 /\ v <= 32767
       /\ ~x.nan =>
            /\ x.num <= -x.den => v = -32768
            /\ x.num >= x.den => v = 32767
            /\ x.num = 0 => v = 0
            /\ (x.num > -x.den /\ x.num < 0) =>
                 (v * x.den >= x.num * 32768 /\ v * x.den < x.num * 32768 + x.den)
            /\ (x.num > 0 /\ x.num < x.den) =>
                 (v * x.den <= x.num * 32767 /\ v * x.den > x.num * 32767 - x.den)

C21_Witness ==
  /\ wavPc = "returned"
  /\ wavBlob.bytes = buffer
  /\ \E i \in 1..Len(audioData) : ~audioData[i].nan /\ audioData[i].num > audioData[i].den
  /\ \E i \in 1..Len(audioData) : ~audioData[i].nan /\ audioData[i].num < -audioData[i].den
  /\ \E i \in 1..Len(audioData) :
       ~audioData[i].nan /\ audioData[i].num > 0 /\ audioData[i].num < audioData[i].den

\* a sendMessageToChat call has been made and has not returned
ChatInFlight ==
  \E i \in 1..MaxCalls :
    calls[i].fn = "sendMessageToChat" /\ calls[i].pc \in {"await", "decode"}

\* C25: while no sendMessageToChat call is in flight the history alternates:
\* user turns at the odd positions, assistant turns at the even ones, and as
\* many of the one as of the other.
C25_Alternates ==
  ~ChatInFlight =>
    /\ Len(chatMessages) % 2 = 0
    /\ \A k \in 1..Len(chatMessages) :
         chatMessages[k].role = IF k % 2 = 1 THEN "user" ELSE "assistant"

\* C30: the length of the remainder is a measure of the loop that cannot fall
\* for ever: an iteration on a remainder longer than the ceiling emits one
\* chunk and leaves a remainder shorter by more than 400 characters, and an
\* iteration on any other remainder, empty or not, ends the loop.
C30_LoopTerminates ==
  [][/\ (pc = "split" /\ ~FitsInOneChunk(remainingText)) =>
          /\ Len(chunks') = Len(chunks) + 1
          /\ Len(remainingText) - Len(remainingText') > 400
     /\ (pc = "split" /\ FitsInOneChunk(remainingText)) => pc' = "dispatch"]_vars

C30_Witness ==
  /\ pc = "dispatch"
  /\ Len(chunks) >= 3
  /\ Len(chunks[1]) = MAX_CHARS
  /\ Len(chunks[2]) = MAX_CHARS
  /\ Len(chunks[Len(chunks)]) < MAX_CHARS
  /\ remainingText = chunks[Len(chunks)]

\* C24: a chunk that addAudioChunk accepted is still in the buffer of the
\* session or has been part of the audio of a transcription request.
C24_NoChunkLost ==
  \A c \in 1..added :
    \/ \E k \in 1..Len(audioChunks) : audioChunks[k] = c
    \/ c \in transcribed

\* the sends of ChatView that have not returned
SendsInFlight == {k \in 1..Len(cvSends) : ~cvSends[k].done}

\* a step that sends: a request is issued, or the history of a session or
\* the displayed messages gain a message of the user
StepSends ==
  \/ Len(cvSends') > Len(cvSends)
  \/ \E q \in 1..Len(cvSessions') :
       /\ cvSessions'[q] # <<>>
       /\ cvSessions'[q][Len(cvSessions'[q])].role = "user"
       /\ (q > Len(cvSessions) \/ Len(cvSessions'[q]) > Len(cvSessions[q]))
  \/ /\ Len(cvMessages') > Len(cvMessages)
     /\ cvMessages'[Len(cvMessages')].sender = "user"

\* C22: ChatView never has two sendMessageToChat calls in flight on the same
\* chat session: a submit turned away at the guard changes neither the
\* requests in flight nor a session history nor the displayed messages, and
\* a step issues a request, or appends a message of the user to a session
\* history or to the displayed messages, only when no send of the mounted
\* view is loading, the note is not a '[Transcribing' placeholder and the
\* input is not blank
C22_OneSendPerSession ==
  [][/\ \A j, k \in SendsInFlight' :
          cvSends'[j].session = cvSends'[k].session => j = k
     /\ cvIgnored' # cvIgnored =>
          UNCHANGED <<cvSends, cvSessions, cvMessages>>
     /\ StepSends =>
          /\ ~isLoading
          /\ \A k \in SendsInFlight : cvSends[k].instance # cvMounted
          /\ cvNote.present
          /\ ~startsWith(cvNote.transcript, Transcribing)
          /\ length(trim(userInput)) # 0]_vars

\* a second message is in flight on a session whose first one has returned,
\* and submits were turned away while loading, while transcribing and with
\* blank input
C22_Witness ==
  /\ \E j, k \in 1..Len(cvSends) :
       /\ j < k
       /\ cvSends[j].session = cvSends[k].session
       /\ cvSends[j].done
       /\ ~cvSends[k].done
  /\ isLoading
  /\ {"loading", "transcribing", "blank"} \subseteq cvIgnored

\* C23: a note removed by confirmDeleteNote is never in the notes list
\* afterwards
C23_DeletedStaysDeleted ==
  \A k \in 1..Len(notes) : notes[k].id \notin deleted

\* the jobs of an import or a scan that settle in this step
SettlingNow ==
  {k \in 1..Len(jobs) :
     jobs[k].kind \in PlaceholderKinds /\ jobs' = Without(jobs, k)}

\* C28: when an import or a scan completes or fails, the notes list keeps
\* its length and order, the notes whose id is not the id of the
\* placeholder are unchanged, a note with that id changes in its transcript
\* only, and the active note changes, in its transcript only, only if it
\* has the id of the placeholder
C28_OnlyPlaceholderReplaced ==
  [][\A k \in SettlingNow :
       LET id == jobs[k].note.id
       IN  /\ Len(notes') = Len(notes)
           /\ \A j \in 1..Len(notes) :
                /\ notes'[j].id = notes[j].id
                /\ notes'[j].summary = notes[j].summary
                /\ notes[j].id # id => notes'[j] = notes[j]
           /\ activeNote' # activeNote =>
                /\ activeNote # NullNote
                /\ activeNote.id = id
                /\ activeNote'.id = id
                /\ activeNote'.summary = activeNote.summary]_vars

\* the work for the second note of two has completed with a text, no
\* other work is pending, and the first note is the active one
C28_Witness ==
  /\ Len(notes) = 2
  /\ jobs = <<>>
  /\ notes[2].transcript = <<"t">>
  /\ activeNote = notes[1]
  /\ notes[1].transcript = <<"e">>

\* C29: once ScannerView is unmounted, every track of a stream it opened
\* while it was mounted is stopped
C29_CameraReleased ==
  scMounted = 0 /\ cameraRequests = {} =>
    \A k \in 1..Len(tracksLive) : ~tracksLive[k]

\* C27: when a scan started with shouldAutoPlay set has completed with a
\* transcript that is not blank and does not start with '[', and NotesView
\* has rendered it, the auto-play timer is armed or handlePlayPause has been
\* called with that transcript
C27_ScanAutoPlays ==
  (/\ apView = "Notes"
   /\ apScan = "done"
   /\ apShouldAutoPlay
   /\ Playable(apNote)
   /\ ~CommitDue) =>
    \/ autoTimer.armed
    \/ \E k \in 1..Len(autoPlays) :
         autoPlays[k] = [opened |-> apOpened, text |-> apNote]

\* C26: at most one generateSpeechFromText call of NotesView is in flight,
\* and isGeneratingSpeech is true while one is
C26_OneGeneration ==
  /\ Cardinality(GenerationsInFlight) <= 1
  /\ GenerationsInFlight # {} => isGeneratingSpeech

====
